---- MODULE Spec2Model ----
(***************************************************************************)
(* cave.c.  Spec: the object-list manager, list_object / delist_object on  *)
(* the active level (cave), the player's known chunk (player->cave) and    *)
(* one further chunk that is neither.  SpecScatter / FairScatter: scatter. *)
(* SpecFeats: count_feats.  SpecMon: cave_monster, cave_monster_max,       *)
(* cave_monster_count.                                                     *)
(*                                                                         *)
(* Each function is an operator from the state before the call to the     *)
(* state after it; the actions apply the operators to the current state.  *)
(***************************************************************************)
EXTENDS Integers, FiniteSets, Sequences, TLC

(* ------------------------------ bounds --------------------------------- *)

\* Number of distinct struct object instances the callers pass in.
NObj == 4

\* OBJECT_LIST_SIZE: entries allocated by cave_new (scaled down).
OBJECT_LIST_SIZE == 2

\* OBJECT_LIST_INCR: entries added by one extension of the list (scaled down).
OBJECT_LIST_INCR == 1

\* Largest obj_max a chunk reaches; the callers stop listing before a list
\* would be extended beyond it.
MaxObjMax == 4

\* The retry budget of scatter (1000000 in the source), scaled down.
MaxTries == 2

\* Largest distance d the callers of scatter pass.
MaxD == 2

\* Height and width of the chunk scatter works on.
Height == 4

Width == 4

\* Height and width of the active level count_feats looks at.
CaveHeight == 5

CaveWidth == 5

\* z_info->level_monster_max: the entries of a chunk's monster array.
LevelMonsterMax == 4

\* Largest height and width the callers of cave_new pass.
MaxHeight == 2

MaxWidth == 2

\* Largest value of the game turn counter when a chunk is made.
MaxTurn == 1

\* Most traps and object piles put on the cells of one chunk.
MaxPlaced == 2

\* Largest obj_max of the chunks object_lists_check_integrity is called on.
IntegMax == 2

\* Largest z_info->f_max: the entries of f_info.
MaxF == 3

\* Most times the world display is entered in one run.
MaxCycles == 3

\* Most flags the callers of subwindows_set_flags have set at a time, over
\* all subwindows.
MaxShown == 2

\* Largest terminal height: one more than the 24 lines that show every entry.
MaxTermHeight == 25

(* ------------------------------ values --------------------------------- *)

\* The C null pointer.
NULL == 0

\* The struct object instances.
Obj == 1..NObj

\* The chunks: the global cave, player->cave, and a chunk that is neither.
Chunks == {"cave", "known", "other"}

\* struct chunk *cave: the active level.
cave == "cave"

\* player->cave: the player's knowledge of the active level.
player_cave == "known"

\* The sets of chunks a run of the callers works on: a chunk alone, the
\* active level with the known chunk, the known chunk with a third chunk.
Scopes == {{"cave"}, {"known"}, {"other"}, {"cave", "known"}, {"known", "other"}}

\* Indices of list entries: one extension beyond MaxObjMax can be computed.
Idx == 0..(MaxObjMax + OBJECT_LIST_INCR)

\* The objects of a level are the odd ones; the even ones are the objects of
\* the player's knowledge.
RealObj == {o \in Obj : o % 2 = 1}

KnownObj == {o \in Obj : o % 2 = 0}

\* obj->known: the known counterpart of the real object o is o + 1, if there
\* is one; a known object has no counterpart of its own.
known == [o \in Obj |-> IF o \in RealObj /\ o + 1 \in Obj THEN o + 1 ELSE NULL]

\* The values an indeterminate pointer can have.
Pointers == Obj \cup {NULL}

VARIABLES
    objects,    \* objects[c][i]: c->objects[i]; entries above obj_max[c] are not allocated
    obj_max,    \* obj_max[c]: c->obj_max; the allocation holds obj_max[c] + 1 entries
    oidx,       \* oidx[o]: o->oidx
    fatal,      \* "none", or how the process ended: "assert" (failed assert), "segv"
    ret,        \* the place the last call returned from
    call,       \* the last call: function, arguments, whether it repeats the call before it
    scope,      \* the chunks the callers pass to list_object / delist_object
    scat,       \* the frame of a call of scatter: arguments, locals, results, position
    feats,      \* the frame of a call of count_feats: what it reads, its results
    mons,       \* the monster fields of a chunk and the last monster accessor call
    level,      \* a chunk from cave_new to cave_free: its fields and the allocations it owns
    integ,      \* the frame of a call of object_lists_check_integrity: the two lists it reads, its result
    lookup,     \* the frame of a call of lookup_feat: the feature table, the name, the result
    fields,     \* the object lists of the active level and the known chunk with the other fields of both chunks
    world,      \* the registered event handlers and the world display state of ui_enter_world / ui_leave_world
    subwin,     \* the flags and handlers of the subwindows under subwindows_set_flags
    side        \* the terminal height, the event and the hook calls of update_sidebar

vars == <<objects, obj_max, oidx, fatal, ret, call, scope, scat, feats, mons, level, integ, lookup, fields, world, subwin, side>>

\* The state of the object lists.
listVars == <<objects, obj_max, oidx, fatal, ret, call, scope>>

\* No call of scatter is under way.
scat_idle ==
    [pc |-> "idle", y |-> 0, x |-> 0, d |-> 0, need_los |-> FALSE, sight |-> "none",
     ny |-> 0, nx |-> 0, tries |-> 0, broke |-> FALSE, yp |-> 0, xp |-> 0]

\* No call of count_feats has been made; *y and *x hold -1.
feats_idle ==
    [pc |-> "idle", py |-> 0, px |-> 0, under |-> FALSE, knownCells |-> {},
     test |-> "always", yptr |-> FALSE, xptr |-> FALSE,
     y |-> -1, x |-> -1, count |-> 0]

\* A chunk as cave_new leaves its monster fields (mon_max = 1, mon_cnt zeroed),
\* no accessor called yet.
mons_idle ==
    [mon_max |-> 1, mon_cnt |-> 0, op |-> "none", idx |-> 0,
     res |-> 0, prev |-> 0, rep |-> FALSE]

\* No chunk has been made yet.
level_idle ==
    [pc |-> "none", op |-> "none", h |-> 0, w |-> 0, turn |-> 0,
     height |-> 0, width |-> 0, objects |-> <<>>, obj_max |-> 0,
     mon_max |-> 0, mon_cnt |-> 0, mon_current |-> 0, created_at |-> 0,
     name |-> FALSE, trap |-> {}, pile |-> {}, live |-> {}, freed |-> <<>>]

\* No call of object_lists_check_integrity has been made.
integ_idle ==
    [pc |-> "idle", c_max |-> 0, k_max |-> 0, c_objects |-> <<>>, k_objects |-> <<>>,
     oidx |-> <<>>, at |-> <<>>, res |-> "none"]

\* No call of lookup_feat has been made.
lookup_idle == [pc |-> "idle", f_info |-> <<>>, name |-> "", res |-> 0]

\* What list_object and delist_object have no assignment to, as cave_new
\* leaves it on a level: the extent, the grid and the monster fields.
FreshRest ==
    [height |-> CaveHeight, width |-> CaveWidth, grid |-> "intact",
     monsters |-> "intact", mon_max |-> 1, mon_cnt |-> 0]

\* Two chunks as cave_new made them, no call made on them yet.
fields_idle ==
    [st |-> [objects |-> [c \in {"cave", "known", "other"} |->
                             [i \in 0..(MaxObjMax + OBJECT_LIST_INCR) |-> 0]],
             obj_max |-> [c \in {"cave", "known", "other"} |-> OBJECT_LIST_SIZE - 1],
             oidx |-> [o \in 1..NObj |-> 0],
             fatal |-> "none", ret |-> "new"],
     rest |-> [c \in {"cave", "known"} |-> FreshRest],
     op |-> "none"]

\* The display has not been set up: no handler is registered (the domain of
\* reg is filled in by init_display).
world_idle ==
    [pc |-> "idle", reg |-> <<>>, map_debug |-> FALSE, cycles |-> 0,
     smlcurs |-> TRUE, screen_save_depth |-> 0,
     signal |-> "none", ran |-> <<>>, entered |-> {}]

\* No subwindow flags have been set: the handler table is not set up.
subwin_idle ==
    [pc |-> "idle", live |-> {}, window_flag |-> <<>>, given |-> <<>>,
     reg |-> <<>>, minimap |-> <<>>]

\* update_sidebar has not run.
side_idle ==
    [pc |-> "idle", hgt |-> 0, type |-> "none", calls |-> <<>>, rowed |-> {}]

\* The current state as a value the operators below work on.
cur == [objects |-> objects, obj_max |-> obj_max, oidx |-> oidx,
        fatal |-> fatal, ret |-> ret]

\* The state st, returned from at the place r.
Return(st, r) == [st EXCEPT !.ret = r]

(* ------------------------------ cave_new ------------------------------- *)

\* cave_new: the object list is zeroed and obj_max is OBJECT_LIST_SIZE - 1.
cave_new_objects == [i \in Idx |-> NULL]

cave_new_obj_max == OBJECT_LIST_SIZE - 1

Init ==
    /\ objects = [c \in Chunks |-> cave_new_objects]
    /\ obj_max = [c \in Chunks |-> cave_new_obj_max]
    /\ oidx = [o \in Obj |-> 0]
    /\ fatal = "none"
    /\ ret = "new"
    /\ call = [op |-> "new", c |-> cave, o |-> NULL, rep |-> FALSE]
    /\ scope \in Scopes
    /\ scat = scat_idle
    /\ feats = feats_idle
    /\ mons = mons_idle
    /\ level = level_idle
    /\ integ = integ_idle
    /\ lookup = lookup_idle
    /\ fields = fields_idle
    /\ world = world_idle
    /\ subwin = subwin_idle
    /\ side = side_idle

(* ------------------------------ list_object ---------------------------- *)

\* The indices both loops of list_object run over: 1 .. obj_max - 1.
ScanRange(st, c) == 1..(st.obj_max[c] - 1)

\* The duplicate scan stopping one entry early.
IsListed_Short(st, c, obj) ==
    \E i \in 1..(st.obj_max[c] - 2) : st.objects[c][i] = obj

\* Lines 196-198: the duplicate scan finds obj.
IsListed(st, c, obj) == \E i \in ScanRange(st, c) : st.objects[c][i] = obj

\* The hole loop skipping every slot of the active level.
KnownSkip_Always(st, c, i) == (c = cave)

\* Line 203: on the active level a slot with a known object is skipped.
KnownSkip(st, c, i) == (c = cave) /\ st.objects[player_cave][i] # NULL

\* Lines 203-206: slot i is taken by the hole loop.
IsHole(st, c, i) == ~KnownSkip(st, c, i) /\ st.objects[c][i] = NULL

Holes(st, c) == {i \in ScanRange(st, c) : IsHole(st, c, i)}

\* The hole loop taking the last hole instead of the first.
FirstHole_Last(st, c) == CHOOSE i \in Holes(st, c) : \A j \in Holes(st, c) : i >= j

\* The first slot the hole loop accepts.
FirstHole(st, c) == CHOOSE i \in Holes(st, c) : \A j \in Holes(st, c) : i <= j

\* mem_realloc to newmax + 1 entries: entries up to the smaller of the two
\* sizes are kept, added entries hold the indeterminate value g, entries
\* beyond the new size are gone.
Realloc(arr, oldmax, newmax, g) ==
    [i \in Idx |-> IF i > newmax THEN NULL
                   ELSE IF i > oldmax THEN g
                   ELSE arr[i]]

\* for (i = lo; i <= hi; i++) arr[i] = NULL
NullRange(arr, lo, hi) ==
    [i \in Idx |-> IF lo <= i /\ i <= hi THEN NULL ELSE arr[i]]

\* The extension adding one entry too many.
NewObjMax_Off(st, c) == st.obj_max[c] + OBJECT_LIST_INCR + 1

\* Line 220: obj_max after an extension.
NewObjMax(st, c) == st.obj_max[c] + OBJECT_LIST_INCR

\* The extension putting obj one entry above the old obj_max.
ExtendList_Off(st, c, obj, g) ==
    LET a1 == Realloc(st.objects[c], st.obj_max[c], NewObjMax(st, c), g)
        a2 == NullRange(a1, st.obj_max[c] + 1, NewObjMax(st, c))
    IN  [a2 EXCEPT ![st.obj_max[c] + 1] = obj]

\* The extension putting obj in the last of the added entries.
ExtendList_Top(st, c, obj, g) ==
    LET a1 == Realloc(st.objects[c], st.obj_max[c], NewObjMax(st, c), g)
        a2 == NullRange(a1, st.obj_max[c], NewObjMax(st, c))
    IN  [a2 EXCEPT ![NewObjMax(st, c)] = obj]

\* Lines 214-219: extend the list of c and put obj at the old obj_max.
ExtendList(st, c, obj, g) ==
    LET a1 == Realloc(st.objects[c], st.obj_max[c], NewObjMax(st, c), g)
        a2 == [a1 EXCEPT ![st.obj_max[c]] = obj]
    IN  NullRange(a2, st.obj_max[c] + 1, NewObjMax(st, c))

\* The known list resized but not cleared.
ExtendKnown_NoClear(st, newmax, g) ==
    Realloc(st.objects[player_cave], st.obj_max[player_cave], newmax, g)

\* Lines 224-226: resize the known list to the size of the active level's
\* and clear it from the known chunk's old obj_max on.
ExtendKnown(st, newmax, g) ==
    LET k1 == Realloc(st.objects[player_cave], st.obj_max[player_cave], newmax, g)
    IN  NullRange(k1, st.obj_max[player_cave], newmax)

\* Line 227: the known chunk's obj_max after the extension.
KnownObjMax(st, newmax) == newmax

\* Lines 213-228: the extension; g is what the added memory holds.
GrowList(st, c, obj, g) ==
    LET newmax == NewObjMax(st, c) IN
    [objects |-> IF c = cave
                 THEN [st.objects EXCEPT ![c] = ExtendList(st, c, obj, g),
                                         ![player_cave] = ExtendKnown(st, newmax, g)]
                 ELSE [st.objects EXCEPT ![c] = ExtendList(st, c, obj, g)],
     obj_max |-> IF c = cave
                 THEN [st.obj_max EXCEPT ![c] = newmax,
                                         ![player_cave] = KnownObjMax(st, newmax)]
                 ELSE [st.obj_max EXCEPT ![c] = newmax],
     oidx    |-> [st.oidx EXCEPT ![obj] = st.obj_max[c]],
     fatal   |-> st.fatal,
     ret     |-> "grow"]

\* Lines 205-209: put obj in the first hole.
FillHole(st, c, obj) ==
    [objects |-> [st.objects EXCEPT ![c][FirstHole(st, c)] = obj],
     obj_max |-> st.obj_max,
     oidx    |-> [st.oidx EXCEPT ![obj] = FirstHole(st, c)],
     fatal   |-> st.fatal,
     ret     |-> "hole"]

\* The states list_object(c, obj) can end in from state st; the memory an
\* extension adds holds any value before the function clears it.
ListOutcomes(st, c, obj) ==
    IF obj = NULL THEN {Return(st, "null")}
    ELSE IF IsListed(st, c, obj) THEN {Return(st, "dup")}
    ELSE IF Holes(st, c) # {} THEN {FillHole(st, c, obj)}
    ELSE {GrowList(st, c, obj, g) : g \in Pointers}

(* ------------------------------ delist_object -------------------------- *)

\* The values a read of c->objects[k] can give: the entry when k is inside
\* the allocation, anything when it is outside.
ReadSlot(st, c, k) ==
    IF k <= st.obj_max[c] THEN {st.objects[c][k]} ELSE Pointers

\* delist_object without its early return.
Unlisted_Never(st, obj) == FALSE

\* Line 237: the object was never listed.
Unlisted(st, obj) == st.oidx[obj] = 0

\* delist_object without the check of the known chunk.
KnownBlocks_Never(c, kv) == FALSE

\* The check of the known chunk made for every chunk.
KnownBlocks_Any(c, kv) == kv # NULL

\* Line 241: the delisting is refused when kv, the known chunk's entry, is set.
KnownBlocks(c, kv) == (c = cave) /\ kv # NULL

\* delist_object leaving the slot as it is.
ClearSlot_Skip(st, c, k) == st.objects

\* Line 243: the write of NULL to c->objects[k]; outside the allocation it
\* does not land in the list.
ClearSlot(st, c, k) ==
    IF k <= st.obj_max[c] THEN [st.objects EXCEPT ![c][k] = NULL] ELSE st.objects

\* delist_object leaving obj->oidx as it is.
ResetOidx_Keep(st, obj) == st.oidx

\* Line 244: obj->oidx = 0.
ResetOidx(st, obj) == [st.oidx EXCEPT ![obj] = 0]

\* delist_object without the assert of line 238.
DelistListed_NoAssert(st, c, obj, v, kv) ==
    LET k == st.oidx[obj] IN
    IF KnownBlocks(c, kv) THEN Return(st, "blocked")
    ELSE [objects |-> ClearSlot(st, c, k),
          obj_max |-> st.obj_max,
          oidx    |-> ResetOidx(st, obj),
          fatal   |-> st.fatal,
          ret     |-> "cleared"]

\* Lines 238-244, v and kv being what the reads of c->objects[obj->oidx] and
\* player->cave->objects[obj->oidx] give.
DelistListed(st, c, obj, v, kv) ==
    LET k == st.oidx[obj] IN
    IF v # obj THEN [st EXCEPT !.fatal = "assert", !.ret = "assert"]
    ELSE IF KnownBlocks(c, kv) THEN Return(st, "blocked")
    ELSE [objects |-> ClearSlot(st, c, k),
          obj_max |-> st.obj_max,
          oidx    |-> ResetOidx(st, obj),
          fatal   |-> st.fatal,
          ret     |-> IF k <= st.obj_max[c] THEN "cleared" ELSE "wild"]

\* The access outside the allocation ends the process.
Crash(st) == [st EXCEPT !.fatal = "segv", !.ret = "segv"]

\* The states delist_object(c, obj) can end in.
DelistOutcomes(st, c, obj) ==
    IF Unlisted(st, obj) THEN {Return(st, "unlisted")}
    ELSE LET k == st.oidx[obj] IN
         (IF k > st.obj_max[c] THEN {Crash(st)} ELSE {})
         \cup {DelistListed(st, c, obj, v, kv) :
                 v \in ReadSlot(st, c, k), kv \in ReadSlot(st, player_cave, k)}

(* ------------------------------ specification -------------------------- *)

\* The call op(c, o) ends in state r.
Become(r, op, c, o) ==
    /\ objects' = r.objects
    /\ obj_max' = r.obj_max
    /\ oidx' = r.oidx
    /\ fatal' = r.fatal
    /\ ret' = r.ret
    /\ call' = [op |-> op, c |-> c, o |-> o,
                rep |-> (call.op = op /\ call.c = c /\ call.o = o)]
    /\ scope' = scope
    /\ UNCHANGED <<scat, feats, mons, level, integ, lookup, fields, world, subwin, side>>

list_object(c, obj) ==
    /\ fatal = "none"
    /\ c \in scope
    /\ \E r \in ListOutcomes(cur, c, obj) :
         /\ r.obj_max[c] <= MaxObjMax
         /\ Become(r, "list", c, obj)

delist_object(c, obj) ==
    /\ fatal = "none"
    /\ c \in scope
    /\ \E r \in DelistOutcomes(cur, c, obj) : Become(r, "delist", c, obj)

\* The objects the callers pass with chunk c: any object when they work on
\* one chunk alone; when they work on two, the objects of the player's
\* knowledge go to player->cave and the real objects to the other chunk.
Args(c) ==
    IF Cardinality(scope) = 1 THEN Obj
    ELSE IF c = player_cave THEN KnownObj
    ELSE RealObj

Next ==
    \E c \in Chunks :
        \/ \E obj \in Args(c) \cup {NULL} : list_object(c, obj)
        \/ \E obj \in Args(c) : delist_object(c, obj)

Spec == Init /\ [][Next]_vars

TypeOK ==
    /\ objects \in [Chunks -> [Idx -> Pointers]]
    /\ obj_max \in [Chunks -> 1..MaxObjMax]
    /\ oidx \in [Obj -> Idx]
    /\ fatal \in {"none", "assert", "segv"}
    /\ scope \in Scopes

(* ------------------------------ scatter -------------------------------- *)

\* rand_spread(A, D): the values a draw can give, A - D .. A + D.
rand_spread(a, spread) == (a - spread)..(a + spread)

\* square_in_bounds_fully(c, y, x): the location is inside the chunk and not
\* on its edge.
square_in_bounds_fully(c, yy, xx) ==
    /\ yy > 0 /\ yy < c.height - 1
    /\ xx > 0 /\ xx < c.width - 1

\* The chunk scatter is called with.
ScatterChunk == [height |-> Height, width |-> Width]

Abs(n) == IF n < 0 THEN -n ELSE n

\* distance: the longer axis plus half the shorter one.
distance(y1, x1, y2, x2) ==
    LET dy == Abs(y2 - y1)
        dx == Abs(x2 - x1)
    IN  IF dy > dx THEN dy + (dx \div 2) ELSE dx + (dy \div 2)

\* What the chunk lets one see from a location: nothing, or the adjacent
\* locations and the location itself.
LosKinds == {"none", "near"}

\* los(c, y1, x1, y2, x2) in a chunk of the given kind.
los(sight, y1, x1, y2, x2) ==
    /\ sight = "near"
    /\ Abs(y2 - y1) <= 1
    /\ Abs(x2 - x1) <= 1

\* The loop test allowing one sample more.
Budget_Off(f) == f.tries <= MaxTries

\* Line 291: while (tries < 1000000).
Budget(f) == f.tries < MaxTries

\* Line 298: the sample is not fully in bounds.
OutOfBounds(f) == ~square_in_bounds_fully(ScatterChunk, f.ny, f.nx)

\* The distance check applied for no d.
TooFar_Never(f) == FALSE

\* Line 301: the sample is excessively distant.
TooFar(f) == f.d > 1 /\ distance(f.y, f.x, f.ny, f.nx) > f.d

\* The loop left without looking at line of sight.
Accept_Any(f) == TRUE

\* Lines 304-307: the loop is left when line of sight is not needed or is there.
Accept(f) ==
    \/ ~f.need_los
    \/ f.need_los /\ los(f.sight, f.y, f.x, f.ny, f.nx)

\* Lines 293-307: one pass of the loop body drawing the sample (sy, sx).
Sample(f, sy, sx) ==
    LET g == [f EXCEPT !.ny = sy, !.nx = sx, !.tries = f.tries + 1] IN
    IF OutOfBounds(g) THEN g
    ELSE IF TooFar(g) THEN g
    ELSE IF Accept(g) THEN [g EXCEPT !.pc = "save", !.broke = TRUE]
    ELSE g

\* scatter returning without writing its results.
Save_Skip(f) == [f EXCEPT !.pc = "done"]

\* The two results written to each other's place.
Save_Swapped(f) == [f EXCEPT !.yp = f.nx, !.xp = f.ny, !.pc = "done"]

\* Lines 311-312: (*yp) = ny; (*xp) = nx.
Save(f) == [f EXCEPT !.yp = f.ny, !.xp = f.nx, !.pc = "done"]

\* The calls of scatter: any origin in the chunk, any distance up to MaxD.
ScatterCalls ==
    [pc : {"loop"}, y : 0..(Height - 1), x : 0..(Width - 1), d : 0..MaxD,
     need_los : BOOLEAN, sight : LosKinds,
     ny : {0}, nx : {0}, tries : {0}, broke : {FALSE}, yp : {0}, xp : {0}]

\* The object lists as cave_new leaves them, with no caller working on them.
FreshLists ==
    /\ objects = [c \in Chunks |-> cave_new_objects]
    /\ obj_max = [c \in Chunks |-> cave_new_obj_max]
    /\ oidx = [o \in Obj |-> 0]
    /\ fatal = "none"
    /\ ret = "new"
    /\ call = [op |-> "new", c |-> cave, o |-> NULL, rep |-> FALSE]
    /\ scope = {cave}

InitScatter ==
    /\ FreshLists
    /\ scat = scat_idle
    /\ feats = feats_idle
    /\ mons = mons_idle
    /\ level = level_idle
    /\ integ = integ_idle
    /\ lookup = lookup_idle
    /\ fields = fields_idle
    /\ world = world_idle
    /\ subwin = subwin_idle
    /\ side = side_idle

\* Line 288: scatter is entered with its arguments and tries = 0.
scatter_call ==
    /\ scat.pc = "idle"
    /\ scat' \in ScatterCalls
    /\ UNCHANGED <<listVars, feats, mons, level, integ, lookup, fields, world, subwin, side>>

\* One pass of the while loop.
scatter_sample ==
    /\ scat.pc = "loop"
    /\ Budget(scat)
    /\ \E sy \in rand_spread(scat.y, scat.d) : \E sx \in rand_spread(scat.x, scat.d) :
         scat' = Sample(scat, sy, sx)
    /\ UNCHANGED <<listVars, feats, mons, level, integ, lookup, fields, world, subwin, side>>

\* The loop is over, by break or by its test: the results are written.
scatter_save ==
    /\ \/ scat.pc = "save"
       \/ scat.pc = "loop" /\ ~Budget(scat)
    /\ scat' = Save(scat)
    /\ UNCHANGED <<listVars, feats, mons, level, integ, lookup, fields, world, subwin, side>>

NextScatter == scatter_call \/ scatter_sample \/ scatter_save

SpecScatter == InitScatter /\ [][NextScatter]_vars

\* scatter runs to its end: nothing suspends it.
FairScatter == SpecScatter /\ WF_vars(NextScatter)

(* ------------------------------ count_feats ---------------------------- *)

\* Lines 59-60: the keypad directions in the order of the loops; ddd[i] is
\* element i + 1.
ddd == <<2, 8, 6, 4, 3, 1, 9, 7, 5>>

\* Lines 65-69: the offsets of a keypad direction; ddx[k] and ddy[k] are
\* element k + 1.
ddx == <<0, -1, 0, 1, -1, 0, 1, -1, 0, 1>>

ddy == <<0, 1, 1, 1, 0, 0, 0, -1, -1, -1>>

\* The x offsets in the order of the keypad numbers 1 to 9.
ddx_ddd_Keypad == <<-1, 0, 1, -1, 0, 1, -1, 0, 1>>

\* Lines 77-81: ddx_ddd[d] and ddy_ddd[d] are element d + 1.
ddx_ddd == <<0, 0, 1, -1, 1, -1, 1, -1, 0>>

\* The y offsets with the north-west entry pointing south.
ddy_ddd_Repeated == <<1, -1, 0, 0, 1, 1, -1, 1, 0>>

ddy_ddd == <<1, -1, 0, 0, 1, 1, -1, -1, 0>>

\* The active level count_feats looks at.
FeatsChunk == [height |-> CaveHeight, width |-> CaveWidth]

\* The locations of the level at most one step from (py, px), (py, px) included.
Block(py, px) ==
    {cell \in ((py - 1)..(py + 1)) \X ((px - 1)..(px + 1)) :
        /\ cell[1] >= 0 /\ cell[1] < FeatsChunk.height
        /\ cell[2] >= 0 /\ cell[2] < FeatsChunk.width}

\* square_isknown(cave, yy, xx): the player knows the location.
square_isknown(f, yy, xx) == <<yy, xx>> \in f.knownCells

\* The predicates the callers pass as test: one true of every location, one
\* true of every second location.
TestKinds == {"always", "even"}

\* (*test)(cave, yy, xx)
test(f, yy, xx) == f.test = "always" \/ (yy + xx) % 2 = 0

\* The scan looking under the player whatever under says.
SkipUnder_Never(f, dir) == FALSE

\* Line 351: the player's own location is skipped unless under is set.
SkipUnder(f, dir) == (dir = 8) /\ ~f.under

\* The location written when one of the pointers is set.
WritesOut_Either(f) == f.xptr \/ f.yptr

\* Line 370: the location is written when both pointers are set.
WritesOut(f) == f.xptr /\ f.yptr

\* Lines 350-373: one pass of the loop, for direction dir, on the count and
\* the values of *y and *x so far.
Visit(f, acc, dir) ==
    LET yy == f.py + ddy_ddd[dir + 1]
        xx == f.px + ddx_ddd[dir + 1]
    IN  IF SkipUnder(f, dir) THEN acc
        ELSE IF ~square_in_bounds_fully(FeatsChunk, yy, xx) THEN acc
        ELSE IF ~square_isknown(f, yy, xx) THEN acc
        ELSE IF ~test(f, yy, xx) THEN acc
        ELSE [count |-> acc.count + 1,
              y |-> IF WritesOut(f) THEN yy ELSE acc.y,
              x |-> IF WritesOut(f) THEN xx ELSE acc.x]

\* Line 348: for (d = 0; d < 9; d++), from direction dir on.
RECURSIVE ScanFrom(_, _, _)
ScanFrom(f, acc, dir) ==
    IF dir >= 9 THEN acc ELSE ScanFrom(f, Visit(f, acc, dir), dir + 1)

\* Lines 345-377: the frame when count_feats returns.
CountFeats(f) ==
    LET acc == ScanFrom(f, [count |-> 0, y |-> f.y, x |-> f.x], 0)
    IN  [f EXCEPT !.pc = "done", !.count = acc.count, !.y = acc.y, !.x = acc.x]

\* The calls of count_feats: the player anywhere in the chunk, any knowledge
\* of the locations around, either pointer null or not.
FeatsCalls(py, px) ==
    [pc : {"call"}, py : {py}, px : {px}, under : BOOLEAN,
     knownCells : SUBSET Block(py, px), test : TestKinds,
     yptr : BOOLEAN, xptr : BOOLEAN,
     y : {feats_idle.y}, x : {feats_idle.x}, count : {0}]

InitFeats ==
    /\ FreshLists
    /\ scat = scat_idle
    /\ feats = feats_idle
    /\ mons = mons_idle
    /\ level = level_idle
    /\ integ = integ_idle
    /\ lookup = lookup_idle
    /\ fields = fields_idle
    /\ world = world_idle
    /\ subwin = subwin_idle
    /\ side = side_idle

count_feats ==
    /\ feats.pc = "idle"
    /\ \E py \in 0..(CaveHeight - 1) : \E px \in 0..(CaveWidth - 1) :
         \E f \in FeatsCalls(py, px) : feats' = CountFeats(f)
    /\ UNCHANGED <<listVars, scat, mons, level, integ, lookup, fields, world, subwin, side>>

NextFeats == count_feats

SpecFeats == InitFeats /\ [][NextFeats]_vars

(* ------------------------------ monsters ------------------------------- *)

\* &c->monsters[idx]: an entry of the monster array is named by its index.
MonsterSlot(idx) == idx

\* cave_monster refusing the indices from mon_max on.
CaveMonster_Checked(m, idx) ==
    IF idx <= 0 \/ idx >= m.mon_max THEN NULL ELSE MonsterSlot(idx)

\* Lines 319-322: cave_monster(c, idx).
CaveMonster(m, idx) == IF idx <= 0 THEN NULL ELSE MonsterSlot(idx)

\* Line 328: cave_monster_max(c).
CaveMonsterMax(m) == m.mon_max

\* Line 335: cave_monster_count(c).
CaveMonsterCount(m) == m.mon_cnt

\* The accessor op, called with idx, has returned res.
Returned(m, op, idx, res) ==
    [m EXCEPT !.op = op, !.idx = idx, !.res = res, !.prev = m.res,
              !.rep = (m.op = op /\ m.idx = idx)]

InitMon ==
    /\ FreshLists
    /\ scat = scat_idle
    /\ feats = feats_idle
    /\ mons = mons_idle
    /\ level = level_idle
    /\ integ = integ_idle
    /\ lookup = lookup_idle
    /\ fields = fields_idle
    /\ world = world_idle
    /\ subwin = subwin_idle
    /\ side = side_idle

cave_monster(idx) ==
    /\ mons' = Returned(mons, "cave_monster", idx, CaveMonster(mons, idx))
    /\ UNCHANGED <<listVars, scat, feats, level, integ, lookup, fields, world, subwin, side>>

cave_monster_max ==
    /\ mons' = Returned(mons, "cave_monster_max", 0, CaveMonsterMax(mons))
    /\ UNCHANGED <<listVars, scat, feats, level, integ, lookup, fields, world, subwin, side>>

cave_monster_count ==
    /\ mons' = Returned(mons, "cave_monster_count", 0, CaveMonsterCount(mons))
    /\ UNCHANGED <<listVars, scat, feats, level, integ, lookup, fields, world, subwin, side>>

\* The rest of the game places and removes monsters: mon_max and mon_cnt
\* change, within the array.
monsters_change ==
    /\ \E mm \in 1..LevelMonsterMax : \E mc \in 0..(mm - 1) :
         /\ <<mm, mc>> # <<mons.mon_max, mons.mon_cnt>>
         /\ mons' = [mons EXCEPT !.mon_max = mm, !.mon_cnt = mc,
                                 !.op = "change", !.idx = 0, !.rep = FALSE]
    /\ UNCHANGED <<listVars, scat, feats, level, integ, lookup, fields, world, subwin, side>>

NextMon ==
    \/ \E idx \in (-1)..(LevelMonsterMax - 1) : cave_monster(idx)
    \/ cave_monster_max
    \/ cave_monster_count
    \/ monsters_change

SpecMon == InitMon /\ [][NextMon]_vars

(* ------------------------- cave_new, cave_free ------------------------- *)

\* One allocation a chunk owns: what it holds and, for a row or for something
\* that belongs to a cell, where (-1 where there is no row or column).
Alloc(kind, y, x) == [kind |-> kind, y |-> y, x |-> x]

\* The cells of a grid of h rows and w columns.
Cells(h, w) == (0..(h - 1)) \X (0..(w - 1))

\* mem_zalloc: the storage it returns is zeroed. The fields of a chunk and of
\* its cells that cave_new never assigns keep these values.
mem_zalloc == [mon_cnt |-> 0, name |-> FALSE, trap |-> {}, pile |-> {}]

\* Line 148: OBJECT_LIST_SIZE zeroed entries.
CaveNewObjects == [i \in 0..(OBJECT_LIST_SIZE - 1) |-> NULL]

\* The allocations of cave_new: lines 136, 139, 141, 143, 145, 148, 151.
CaveNewAllocs(h, w) ==
    {Alloc("chunk", -1, -1), Alloc("feat_count", -1, -1), Alloc("squares", -1, -1)}
    \cup {Alloc("row", y, -1) : y \in 0..(h - 1)}
    \cup {Alloc("info", cell[1], cell[2]) : cell \in Cells(h, w)}
    \cup {Alloc("objects", -1, -1), Alloc("monsters", -1, -1)}

\* created_at left as mem_zalloc made it.
CreatedAt_Zero(t) == 0

\* Line 155: c->created_at = turn.
CreatedAt(t) == t

\* cave_new(h, w) while the game turn is t: the chunk it returns, with the
\* arguments and the turn of the call kept in h, w and turn.
CaveNew(h, w, t) ==
    [pc |-> "live", op |-> "cave_new", h |-> h, w |-> w, turn |-> t,
     height |-> h, width |-> w,
     objects |-> CaveNewObjects, obj_max |-> OBJECT_LIST_SIZE - 1,
     mon_max |-> 1, mon_cnt |-> mem_zalloc.mon_cnt, mon_current |-> -1,
     created_at |-> CreatedAt(t),
     name |-> mem_zalloc.name, trap |-> mem_zalloc.trap, pile |-> mem_zalloc.pile,
     live |-> CaveNewAllocs(h, w), freed |-> <<>>]

\* square_free_trap(c, y, x): the trap record of the cell is released.
square_free_trap(y, x) == <<Alloc("trap", y, x)>>

\* object_pile_free(c->squares[y][x].obj): the pile of the cell is released.
object_pile_free(y, x) == <<Alloc("pile", y, x)>>

\* Lines 167-171 without the release of the trap.
CellFrees_NoTrap(lv, y, x) ==
    <<Alloc("info", y, x)>>
    \o (IF <<y, x>> \in lv.pile THEN object_pile_free(y, x) ELSE <<>>)

\* Lines 167-171 for one cell: what is released, in order.
CellFrees(lv, y, x) ==
    <<Alloc("info", y, x)>>
    \o (IF <<y, x>> \in lv.trap THEN square_free_trap(y, x) ELSE <<>>)
    \o (IF <<y, x>> \in lv.pile THEN object_pile_free(y, x) ELSE <<>>)

\* The inner loop of cave_free from column x on.
RECURSIVE ColFrees(_, _, _)
ColFrees(lv, y, x) ==
    IF x < lv.width THEN CellFrees(lv, y, x) \o ColFrees(lv, y, x + 1) ELSE <<>>

\* The outer loop of cave_free from row y on: the cells of a row, then the row.
RECURSIVE RowFrees(_, _)
RowFrees(lv, y) ==
    IF y < lv.height
    THEN ColFrees(lv, y, 0) \o <<Alloc("row", y, -1)>> \o RowFrees(lv, y + 1)
    ELSE <<>>

\* Lines 177-182 without the release of the feature-count table.
TailFrees_Leak(lv) ==
    <<Alloc("squares", -1, -1), Alloc("objects", -1, -1), Alloc("monsters", -1, -1)>>
    \o (IF lv.name THEN <<Alloc("name", -1, -1)>> ELSE <<>>)
    \o <<Alloc("chunk", -1, -1)>>

\* Lines 175-182: the grid array, the tables, the name if set, the chunk.
TailFrees(lv) ==
    <<Alloc("squares", -1, -1), Alloc("feat_count", -1, -1),
      Alloc("objects", -1, -1), Alloc("monsters", -1, -1)>>
    \o (IF lv.name THEN <<Alloc("name", -1, -1)>> ELSE <<>>)
    \o <<Alloc("chunk", -1, -1)>>

\* The elements of a sequence.
Range(s) == {s[i] : i \in 1..Len(s)}

\* cave_free(c): every mem_free takes its argument out of the live allocations
\* and is logged.
CaveFree(lv) ==
    LET log == RowFrees(lv, 0) \o TailFrees(lv)
    IN  [lv EXCEPT !.pc = "freed", !.op = "cave_free",
                   !.live = @ \ Range(log), !.freed = log]

InitLevel ==
    /\ FreshLists
    /\ scat = scat_idle
    /\ feats = feats_idle
    /\ mons = mons_idle
    /\ level = level_idle
    /\ integ = integ_idle
    /\ lookup = lookup_idle
    /\ fields = fields_idle
    /\ world = world_idle
    /\ subwin = subwin_idle
    /\ side = side_idle

\* cave_new(h, w): it returns the chunk, or an allocation fails and the
\* process ends.
cave_new(h, w, t) ==
    /\ level.pc \in {"none", "freed"}
    /\ \/ level' = CaveNew(h, w, t)
       \/ level' = [level_idle EXCEPT !.pc = "quit", !.op = "cave_new"]
    /\ UNCHANGED <<listVars, scat, feats, mons, integ, lookup, fields, world, subwin, side>>

\* The chunk is given a name.
set_name ==
    /\ level.pc = "live"
    /\ ~level.name
    /\ level' = [level EXCEPT !.op = "populate", !.name = TRUE,
                              !.live = @ \cup {Alloc("name", -1, -1)}]
    /\ UNCHANGED <<listVars, scat, feats, mons, integ, lookup, fields, world, subwin, side>>

\* A trap is put on a cell that has none.
place_trap(y, x) ==
    /\ level.pc = "live"
    /\ <<y, x>> \in Cells(level.height, level.width) \ level.trap
    /\ Cardinality(level.trap) + Cardinality(level.pile) < MaxPlaced
    /\ level' = [level EXCEPT !.op = "populate", !.trap = @ \cup {<<y, x>>},
                              !.live = @ \cup {Alloc("trap", y, x)}]
    /\ UNCHANGED <<listVars, scat, feats, mons, integ, lookup, fields, world, subwin, side>>

\* An object is dropped on a cell that has no pile.
place_pile(y, x) ==
    /\ level.pc = "live"
    /\ <<y, x>> \in Cells(level.height, level.width) \ level.pile
    /\ Cardinality(level.trap) + Cardinality(level.pile) < MaxPlaced
    /\ level' = [level EXCEPT !.op = "populate", !.pile = @ \cup {<<y, x>>},
                              !.live = @ \cup {Alloc("pile", y, x)}]
    /\ UNCHANGED <<listVars, scat, feats, mons, integ, lookup, fields, world, subwin, side>>

\* cave_free(c) on the chunk cave_new returned.
cave_free ==
    /\ level.pc = "live"
    /\ level' = CaveFree(level)
    /\ UNCHANGED <<listVars, scat, feats, mons, integ, lookup, fields, world, subwin, side>>

NextLevel ==
    \/ \E h \in 1..MaxHeight : \E w \in 1..MaxWidth : \E t \in 0..MaxTurn :
         cave_new(h, w, t)
    \/ set_name
    \/ \E y \in 0..(MaxHeight - 1) : \E x \in 0..(MaxWidth - 1) : place_trap(y, x)
    \/ \E y \in 0..(MaxHeight - 1) : \E x \in 0..(MaxWidth - 1) : place_pile(y, x)
    \/ cave_free

SpecLevel == InitLevel /\ [][NextLevel]_vars

(* -------------------- object_lists_check_integrity --------------------- *)

\* The objects the checked lists hold: two objects of the level, one object
\* of the player's knowledge; "null" is the null pointer.
IntegReal == {"o1", "o3"}

IntegKnown == {"k1"}

\* obj->known: k1 is what the player knows of o1; nothing is known of o3.
KnownOf == [o \in IntegReal |-> IF o = "o1" THEN "k1" ELSE "null"]

\* Where an object says it is (iy, ix) and whether the pile of that cell of
\* its chunk holds it: nowhere, on a cell in the pile, on a cell but not in
\* the pile.
Places ==
    {[iy |-> 0, ix |-> 0, inpile |-> FALSE],
     [iy |-> 1, ix |-> 1, inpile |-> TRUE],
     [iy |-> 1, ix |-> 1, inpile |-> FALSE]}

\* pile_contains(chunk->squares[o->iy][o->ix].obj, o).
pile_contains(f, o) == f.at[o].inpile

\* Lines 260, 266 with the pile test left out.
OnPile_Skip(f, o) == TRUE

\* Lines 260-261, 266-267: the pile of the cell is looked at when iy and ix
\* are both non-zero.
OnPile(f, o) == f.at[o].iy # 0 /\ f.at[o].ix # 0 => pile_contains(f, o)

\* Lines 258-262: the asserts on c->objects[i].
RealOk(f, i) ==
    LET obj == f.c_objects[i]
    IN  obj # "null" => f.oidx[obj] = i /\ OnPile(f, obj)

\* Lines 263-269 without the assert of line 265.
KnownOk_NoCounterpart(f, i) ==
    LET obj == f.c_objects[i]
        known_obj == f.k_objects[i]
    IN  known_obj # "null" =>
            /\ obj # "null"
            /\ OnPile(f, known_obj)
            /\ f.oidx[known_obj] = i

\* Lines 263-269: the asserts on c_k->objects[i].
KnownOk(f, i) ==
    LET obj == f.c_objects[i]
        known_obj == f.k_objects[i]
    IN  known_obj # "null" =>
            /\ obj # "null"
            /\ known_obj = KnownOf[obj]
            /\ OnPile(f, known_obj)
            /\ f.oidx[known_obj] = i

\* object_lists_check_integrity(c, c_k): "ok" when it returns, "assert" when
\* an assert fails and the process ends.
CheckIntegrity(f) ==
    IF f.c_max # f.k_max THEN "assert"
    ELSE IF \A i \in 0..(f.c_max - 1) : RealOk(f, i) /\ KnownOk(f, i) THEN "ok"
    ELSE "assert"

\* The pairs of lists the check is called on.
IntegCalls ==
    [pc : {"call"}, c_max : 1..IntegMax, k_max : 1..IntegMax,
     c_objects : [0..(IntegMax - 1) -> IntegReal \cup {"null"}],
     k_objects : [0..(IntegMax - 1) -> IntegKnown \cup {"null"}],
     oidx : [IntegReal \cup IntegKnown -> 0..(IntegMax - 1)],
     at : [IntegReal \cup IntegKnown -> Places],
     res : {"none"}]

InitInteg ==
    /\ FreshLists
    /\ scat = scat_idle
    /\ feats = feats_idle
    /\ mons = mons_idle
    /\ level = level_idle
    /\ integ = integ_idle
    /\ lookup = lookup_idle
    /\ fields = fields_idle
    /\ world = world_idle
    /\ subwin = subwin_idle
    /\ side = side_idle

\* A caller hands two chunks to the check.
integrity_call ==
    /\ integ.pc = "idle"
    /\ integ' \in IntegCalls
    /\ UNCHANGED <<listVars, scat, feats, mons, level, lookup, fields, world, subwin, side>>

\* object_lists_check_integrity runs: it writes to neither chunk.
object_lists_check_integrity ==
    /\ integ.pc = "call"
    /\ integ' = [integ EXCEPT !.pc = "done", !.res = CheckIntegrity(integ)]
    /\ UNCHANGED <<listVars, scat, feats, mons, level, lookup, fields, world, subwin, side>>

NextInteg == integrity_call \/ object_lists_check_integrity

SpecInteg == InitInteg /\ [][NextInteg]_vars

(* ------------------------------ lookup_feat ---------------------------- *)

\* feat->name of a feature that has no name: a null pointer.
NoName == "null"

\* The names features have, and the names lookup_feat is asked for: no
\* feature is called "lava".
FeatNames == {"open floor", "granite wall"}

AskedNames == FeatNames \cup {"lava"}

\* The scan running from the last entry down.
RECURSIVE FindFeat_Last(_, _, _)
FindFeat_Last(f_info, name, i) ==
    IF i >= Len(f_info) THEN -1
    ELSE LET above == FindFeat_Last(f_info, name, i + 1)
         IN  IF above # -1 THEN above
             ELSE IF f_info[i + 1] # NoName /\ name = f_info[i + 1] THEN i
             ELSE -1

\* Lines 91-99 from entry i on: the index returned, or -1 when the loop ends.
RECURSIVE FindFeat(_, _, _)
FindFeat(f_info, name, i) ==
    IF i >= Len(f_info) THEN -1
    ELSE IF f_info[i + 1] = NoName THEN FindFeat(f_info, name, i + 1)
    ELSE IF name = f_info[i + 1] THEN i
    ELSE FindFeat(f_info, name, i + 1)

\* quit_fmt: the process ends; line 103 is not reached.
quit_fmt(f) == [f EXCEPT !.pc = "quit"]

\* lookup_feat(name) on the table f.f_info.
LookupFeat(f) ==
    LET i == FindFeat(f.f_info, f.name, 0)
    IN  IF i # -1 THEN [f EXCEPT !.pc = "done", !.res = i] ELSE quit_fmt(f)

\* The tables of up to MaxF features, named or not, and the names asked for.
FeatTables == UNION {[1..n -> FeatNames \cup {NoName}] : n \in 0..MaxF}

InitLookup ==
    /\ FreshLists
    /\ scat = scat_idle
    /\ feats = feats_idle
    /\ mons = mons_idle
    /\ level = level_idle
    /\ integ = integ_idle
    /\ lookup = lookup_idle
    /\ fields = fields_idle
    /\ world = world_idle
    /\ subwin = subwin_idle
    /\ side = side_idle

lookup_feat(name) ==
    /\ lookup.pc = "idle"
    /\ \E t \in FeatTables :
         lookup' = LookupFeat([lookup EXCEPT !.f_info = t, !.name = name])
    /\ UNCHANGED <<listVars, scat, feats, mons, level, integ, fields, world, subwin, side>>

NextLookup == \E name \in AskedNames : lookup_feat(name)

SpecLookup == InitLookup /\ [][NextLookup]_vars

(* ----------- list_object, delist_object and the rest of a chunk -------- *)

\* The callers here keep the last object on the level and hold the others in
\* the player's knowledge.
FrameArgs(c) == IF c = cave THEN {NObj} ELSE Obj \ {NObj}

\* What a field of a chunk holds after zero bytes were written over it.
Overwritten(field) ==
    IF field \in {"grid", "monsters"} THEN "clobbered" ELSE 0

\* Line 243 with obj->oidx outside the allocation c->objects: the NULL lands
\* in whatever memory lies there, in none of the chunks' fields or in one.
WildWrite(rest) ==
    {rest} \cup
    {[rest EXCEPT ![c][field] = Overwritten(field)] :
        c \in DOMAIN rest, field \in DOMAIN FreshRest}

\* The fields of the chunks after a call that ended in r.
RestAfter(r, rest) == IF r.ret = "wild" THEN WildWrite(rest) ELSE {rest}

InitFrame ==
    /\ FreshLists
    /\ scat = scat_idle
    /\ feats = feats_idle
    /\ mons = mons_idle
    /\ level = level_idle
    /\ integ = integ_idle
    /\ lookup = lookup_idle
    /\ fields = fields_idle
    /\ world = world_idle
    /\ subwin = subwin_idle
    /\ side = side_idle

\* list_object(c, obj) on the active level or the known chunk.
frame_list_object(c, obj) ==
    /\ fields.st.fatal = "none"
    /\ \E r \in ListOutcomes(fields.st, c, obj) :
         /\ r.obj_max[c] <= MaxObjMax
         /\ \E rest \in RestAfter(r, fields.rest) :
              fields' = [st |-> r, rest |-> rest, op |-> "list"]
    /\ UNCHANGED <<listVars, scat, feats, mons, level, integ, lookup, world, subwin, side>>

\* delist_object(c, obj) on the active level or the known chunk.
frame_delist_object(c, obj) ==
    /\ fields.st.fatal = "none"
    /\ \E r \in DelistOutcomes(fields.st, c, obj) :
         \E rest \in RestAfter(r, fields.rest) :
              fields' = [st |-> r, rest |-> rest, op |-> "delist"]
    /\ UNCHANGED <<listVars, scat, feats, mons, level, integ, lookup, world, subwin, side>>

NextFrame ==
    \E c \in {cave, player_cave} :
        \/ \E obj \in FrameArgs(c) \cup {NULL} : frame_list_object(c, obj)
        \/ \E obj \in FrameArgs(c) : frame_delist_object(c, obj)

SpecFrame == InitFrame /\ [][NextFrame]_vars

(* -------------------- ui_enter_world, ui_leave_world ------------------- *)

\* Lines 64-81.
player_events ==
    {"EVENT_RACE_CLASS", "EVENT_PLAYERTITLE", "EVENT_EXPERIENCE", "EVENT_PLAYERLEVEL",
     "EVENT_GOLD", "EVENT_EQUIPMENT", "EVENT_STATS", "EVENT_HP", "EVENT_MANA",
     "EVENT_AC", "EVENT_MONSTERHEALTH", "EVENT_PLAYERSPEED", "EVENT_DUNGEONLEVEL"}

\* Lines 83-89.
statusline_events ==
    {"EVENT_STUDYSTATUS", "EVENT_STATUS", "EVENT_STATE", "EVENT_FEELING"}

\* A registration: the event, the handler and the user pointer given with it.
Handler(ev, fn, user) == [ev |-> ev, fn |-> fn, user |-> user]

\* A handler registered for each event of a set.
HandlerSet(evs, fn, user) == {Handler(ev, fn, user) : ev \in evs}

\* Lines 2413, 2478: the handler compiled in when MAP_DEBUG is defined.
MapDebug(w) ==
    IF w.map_debug
    THEN {Handler("EVENT_MAP", "trace_map_updates", "angband_term[0]")}
    ELSE {}

\* Lines 2408-2450 without line 2423: the registrations ui_leave_world takes
\* back one by one.
WorldSingles ==
    {Handler("EVENT_HP", "hp_colour_change", "NULL"),
     Handler("EVENT_MAP", "update_maps", "angband_term[0]"),
     Handler("EVENT_PLAYERMOVED", "check_panel", "NULL"),
     Handler("EVENT_SEEFLOOR", "see_floor_items", "NULL"),
     Handler("EVENT_EXPLOSION", "display_explosion", "NULL"),
     Handler("EVENT_BOLT", "display_bolt", "NULL"),
     Handler("EVENT_MISSILE", "display_missile", "NULL"),
     Handler("EVENT_CHECK_INTERRUPT", "check_for_player_interrupt", "NULL"),
     Handler("EVENT_REFRESH", "refresh", "NULL"),
     Handler("EVENT_NEW_LEVEL_DISPLAY", "new_level_display_update", "NULL"),
     Handler("EVENT_COMMAND_REPEAT", "repeated_command_display", "NULL"),
     Handler("EVENT_ANIMATE", "animate", "NULL"),
     Handler("EVENT_CHEAT_DEATH", "cheat_death", "NULL")}

\* Lines 2399-2450: what ui_enter_world registers.
EnterAdds(w) ==
    HandlerSet(player_events, "update_sidebar", "NULL")
    \cup HandlerSet(statusline_events, "update_statusline", "NULL")
    \cup WorldSingles
    \cup MapDebug(w)
    \cup {Handler("EVENT_ENTER_STORE", "enter_store", "NULL")}

\* Lines 2464-2512: what ui_leave_world removes.
LeaveRemoves(w) ==
    HandlerSet(player_events, "update_sidebar", "NULL")
    \cup HandlerSet(statusline_events, "update_statusline", "NULL")
    \cup WorldSingles
    \cup MapDebug(w)

\* Lines 2515-2518: what ui_leave_world registers.
LeaveAdds ==
    {Handler("EVENT_USE_STORE", "use_store", "NULL"),
     Handler("EVENT_LEAVE_STORE", "leave_store", "NULL")}

\* Lines 2564-2565: init_display.
InitDisplayAdds ==
    {Handler("EVENT_ENTER_WORLD", "ui_enter_world", "NULL"),
     Handler("EVENT_LEAVE_WORLD", "ui_leave_world", "NULL")}

\* Every registration made here.
WorldHandlers ==
    EnterAdds([map_debug |-> TRUE]) \cup LeaveAdds \cup InitDisplayAdds

\* The events signalled to the display.
WorldEvents == {h.ev : h \in WorldHandlers}

\* event_add_handler, event_add_handler_set: one more entry in the list of
\* each event for each handler of hs.
event_add_handler(reg, hs) ==
    [h \in DOMAIN reg |-> IF h \in hs THEN reg[h] + 1 ELSE reg[h]]

\* event_remove_handler, event_remove_handler_set: for each handler of hs
\* one entry with that function and user pointer is taken out, if there is one.
event_remove_handler(reg, hs) ==
    [h \in DOMAIN reg |-> IF h \in hs /\ reg[h] > 0 THEN reg[h] - 1 ELSE reg[h]]

\* Lines 2384-2454.
UiEnterWorld(w) ==
    [w EXCEPT !.pc = "world", !.smlcurs = FALSE,
              !.reg = event_add_handler(@, EnterAdds(w)),
              !.entered = EnterAdds(w),
              !.cycles = @ + 1,
              !.screen_save_depth = @ - 1]

\* Lines 2456-2522.
UiLeaveWorld(w) ==
    [w EXCEPT !.pc = "away", !.smlcurs = TRUE,
              !.reg = event_add_handler(
                          event_remove_handler(@, LeaveRemoves(w)), LeaveAdds),
              !.screen_save_depth = @ + 1]

InitWorld ==
    /\ FreshLists
    /\ scat = scat_idle
    /\ feats = feats_idle
    /\ mons = mons_idle
    /\ level = level_idle
    /\ integ = integ_idle
    /\ lookup = lookup_idle
    /\ fields = fields_idle
    /\ world = world_idle
    /\ subwin = subwin_idle
    /\ side = side_idle

\* init_display in a build with or without MAP_DEBUG.
init_display ==
    /\ world.pc = "idle"
    /\ \E dbg \in BOOLEAN :
         world' = [world_idle EXCEPT
                     !.pc = "away", !.map_debug = dbg,
                     !.reg = event_add_handler([h \in WorldHandlers |-> 0],
                                               InitDisplayAdds),
                     !.ran = [h \in WorldHandlers |-> 0]]
    /\ UNCHANGED <<listVars, scat, feats, mons, level, integ, lookup, fields, subwin, side>>

\* EVENT_ENTER_WORLD is signalled: ui_enter_world runs.
ui_enter_world ==
    /\ world.pc = "away"
    /\ world.cycles < MaxCycles
    /\ world' = [UiEnterWorld(world) EXCEPT
                   !.signal = "EVENT_ENTER_WORLD",
                   !.ran = [h \in WorldHandlers |->
                              IF h.ev = "EVENT_ENTER_WORLD" THEN world.reg[h] ELSE 0]]
    /\ UNCHANGED <<listVars, scat, feats, mons, level, integ, lookup, fields, subwin, side>>

\* EVENT_LEAVE_WORLD is signalled: ui_leave_world runs.
ui_leave_world ==
    /\ world.pc = "world"
    /\ world' = [UiLeaveWorld(world) EXCEPT
                   !.signal = "EVENT_LEAVE_WORLD",
                   !.ran = [h \in WorldHandlers |->
                              IF h.ev = "EVENT_LEAVE_WORLD" THEN world.reg[h] ELSE 0]]
    /\ UNCHANGED <<listVars, scat, feats, mons, level, integ, lookup, fields, subwin, side>>

\* Another event is signalled: every entry registered for it is called.
event_signal(ev) ==
    /\ world.pc \in {"away", "world"}
    /\ ev \notin {"EVENT_ENTER_WORLD", "EVENT_LEAVE_WORLD"}
    /\ world' = [world EXCEPT
                   !.signal = ev,
                   !.ran = [h \in WorldHandlers |->
                              IF h.ev = ev THEN world.reg[h] ELSE 0]]
    /\ UNCHANGED <<listVars, scat, feats, mons, level, integ, lookup, fields, subwin, side>>

NextWorld ==
    \/ init_display
    \/ ui_enter_world
    \/ ui_leave_world
    \/ \E ev \in WorldEvents : event_signal(ev)

SpecWorld == InitWorld /\ [][NextWorld]_vars

(* ------------------------- subwindows_set_flags ------------------------ *)

\* The window flags, each named by the index of its bit, in the order of
\* window_flag_desc (lines 1830-1844).
PW_INVEN == 0

PW_EQUIP == 1

PW_PLAYER_0 == 2

PW_PLAYER_1 == 3

PW_PLAYER_2 == 4

PW_MAP == 5

PW_MESSAGE == 6

PW_OVERHEAD == 7

PW_MONSTER == 8

PW_OBJECT == 9

PW_MONLIST == 10

PW_STATUS == 11

PW_ITEMLIST == 12

\* Lines 1830-1864: the bits with a description are 0..12; bit 13 stands for
\* the bits whose description is NULL.
DescribedBits == 0..12

FlagBits == 0..13

\* The subwindows: angband_term[1] and angband_term[2].
Subwindows == {1, 2}

\* The user pointers of the handlers of window j.
TermOf(j) == IF j = 1 THEN "angband_term[1]" ELSE "angband_term[2]"

MinimapOf(j) == IF j = 1 THEN "&minimap_data[1]" ELSE "&minimap_data[2]"

\* Lines 1882-1995: the handlers of the case of flag for window j; none when
\* the switch has no case for it.
FlagHandlers(j, flag) ==
    CASE flag = PW_INVEN ->
           {Handler("EVENT_INVENTORY", "update_inven_subwindow", TermOf(j))}
      [] flag = PW_EQUIP ->
           {Handler("EVENT_EQUIPMENT", "update_equip_subwindow", TermOf(j))}
      [] flag = PW_PLAYER_0 ->
           HandlerSet(player_events, "update_player0_subwindow", TermOf(j))
      [] flag = PW_PLAYER_1 ->
           HandlerSet(player_events, "update_player1_subwindow", TermOf(j))
      [] flag = PW_PLAYER_2 ->
           HandlerSet(player_events, "update_player_compact_subwindow", TermOf(j))
      [] flag = PW_MAP ->
           {Handler("EVENT_MAP", "update_maps", TermOf(j)),
            Handler("EVENT_END", "flush_subwindow", TermOf(j))}
      [] flag = PW_MESSAGE ->
           {Handler("EVENT_MESSAGE", "update_messages_subwindow", TermOf(j))}
      [] flag = PW_OVERHEAD ->
           {Handler("EVENT_MAP", "update_minimap_subwindow", MinimapOf(j)),
            Handler("EVENT_DUNGEONLEVEL", "update_minimap_subwindow", MinimapOf(j)),
            Handler("EVENT_END", "update_minimap_subwindow", MinimapOf(j))}
      [] flag = PW_MONSTER ->
           {Handler("EVENT_MONSTERTARGET", "update_monster_subwindow", TermOf(j))}
      [] flag = PW_OBJECT ->
           {Handler("EVENT_OBJECTTARGET", "update_object_subwindow", TermOf(j))}
      [] flag = PW_MONLIST ->
           {Handler("EVENT_MONSTERLIST", "update_monlist_subwindow", TermOf(j))}
      [] flag = PW_ITEMLIST ->
           {Handler("EVENT_ITEMLIST", "update_itemlist_subwindow", TermOf(j))}
      [] OTHER -> {}

\* Every handler a subwindow flag can register.
SubwindowHandlers ==
    UNION {FlagHandlers(j, flag) : j \in Subwindows, flag \in FlagBits}

\* Lines 1866-1996: subwindow_flag_changed(win_idx, flag, new_state).
subwindow_flag_changed(sw, j, flag, new_state) ==
    [sw EXCEPT
       !.reg = IF new_state THEN event_add_handler(@, FlagHandlers(j, flag))
               ELSE event_remove_handler(@, FlagHandlers(j, flag)),
       !.minimap = IF flag = PW_OVERHEAD THEN [@ EXCEPT ![j] = j] ELSE @]

\* The loop of subwindow_set_flags calling for every described bit, changed
\* or not.
Changed_Always(sw, j, new_flags, i) == TRUE

\* Line 2013: bit i differs between the new flags and window_flag[win_idx].
Changed(sw, j, new_flags, i) ==
    (i \in new_flags) # (i \in sw.window_flag[j])

\* Lines 2010-2015 from bit i on.
RECURSIVE ChangeFrom(_, _, _, _)
ChangeFrom(sw, j, new_flags, i) ==
    IF i >= 32 THEN sw
    ELSE IF i \in DescribedBits /\ Changed(sw, j, new_flags, i)
         THEN ChangeFrom(subwindow_flag_changed(sw, j, i, i \in new_flags),
                         j, new_flags, i + 1)
         ELSE ChangeFrom(sw, j, new_flags, i + 1)

\* Lines 2004-2031: subwindow_set_flags(win_idx, new_flags).
subwindow_set_flags(sw, j, new_flags) ==
    [ChangeFrom(sw, j, new_flags, 0) EXCEPT !.window_flag[j] = new_flags]

\* Lines 2041-2048 from window j on.
RECURSIVE SetFrom(_, _, _)
SetFrom(sw, new_flags, j) ==
    IF j \notin DOMAIN new_flags THEN sw
    ELSE IF j \notin sw.live THEN SetFrom(sw, new_flags, j + 1)
    ELSE IF sw.window_flag[j] # new_flags[j]
         THEN SetFrom(subwindow_set_flags(sw, j, new_flags[j]), new_flags, j + 1)
         ELSE SetFrom(sw, new_flags, j + 1)

\* Lines 2037-2049: subwindows_set_flags(new_flags, n_subwindows).
SubwindowsSetFlags(sw, new_flags) ==
    [SetFrom(sw, new_flags, 1) EXCEPT !.given = new_flags, !.pc = "set"]

\* The flags a with the bits of s changed.
Toggle(a, s) == (a \ s) \cup (s \ a)

\* The array g with bit b of window j changed.
Flip(g, j, b) == [g EXCEPT ![j] = Toggle(@, {b})]

\* The arrays the callers pass next: the one passed last, unchanged, with one
\* bit changed, with the same bit changed in both windows, or with two
\* neighbouring bits changed in one window.
NextFlags(sw) ==
    {g \in {sw.given}
           \cup {Flip(sw.given, j, b) : j \in Subwindows, b \in FlagBits}
           \cup {Flip(Flip(sw.given, 1, b), 2, b) : b \in FlagBits}
           \cup {Flip(Flip(sw.given, j, b), j, b + 1) :
                    j \in Subwindows, b \in {f \in FlagBits : f + 1 \in FlagBits}} :
        Cardinality(g[1]) + Cardinality(g[2]) <= MaxShown}

InitSubwin ==
    /\ FreshLists
    /\ scat = scat_idle
    /\ feats = feats_idle
    /\ mons = mons_idle
    /\ level = level_idle
    /\ integ = integ_idle
    /\ lookup = lookup_idle
    /\ fields = fields_idle
    /\ world = world_idle
    /\ subwin = subwin_idle
    /\ side = side_idle

\* The terminals are set up: any of the subwindows may have none. All flags
\* are clear and no handler is registered.
term_setup ==
    /\ subwin.pc = "idle"
    /\ \E live \in SUBSET Subwindows :
         subwin' = [pc |-> "ready", live |-> live,
                    window_flag |-> [j \in Subwindows |-> {}],
                    given |-> [j \in Subwindows |-> {}],
                    reg |-> [h \in SubwindowHandlers |-> 0],
                    minimap |-> [j \in Subwindows |-> 0]]
    /\ UNCHANGED <<listVars, scat, feats, mons, level, integ, lookup, fields, world, side>>

subwindows_set_flags ==
    /\ subwin.pc \in {"ready", "set"}
    /\ \E new_flags \in NextFlags(subwin) :
         subwin' = SubwindowsSetFlags(subwin, new_flags)
    /\ UNCHANGED <<listVars, scat, feats, mons, level, integ, lookup, fields, world, side>>

NextSubwin == term_setup \/ subwindows_set_flags

SpecSubwin == InitSubwin /\ [][NextSubwin]_vars

(* ---------------------------- update_sidebar --------------------------- *)

\* An entry of side_handlers; hook "NULL" is the null pointer and type
\* "EVENT_0" the event of enum value 0.
SideHandler(hook, priority, type) ==
    [hook |-> hook, priority |-> priority, type |-> type]

\* Lines 500-528.
side_handlers ==
    << SideHandler("prt_race", 19, "EVENT_RACE_CLASS"),
       SideHandler("prt_title", 18, "EVENT_PLAYERTITLE"),
       SideHandler("prt_class", 22, "EVENT_RACE_CLASS"),
       SideHandler("prt_level", 10, "EVENT_PLAYERLEVEL"),
       SideHandler("prt_exp", 16, "EVENT_EXPERIENCE"),
       SideHandler("prt_gold", 11, "EVENT_GOLD"),
       SideHandler("prt_equippy", 17, "EVENT_EQUIPMENT"),
       SideHandler("prt_str", 6, "EVENT_STATS"),
       SideHandler("prt_int", 5, "EVENT_STATS"),
       SideHandler("prt_wis", 4, "EVENT_STATS"),
       SideHandler("prt_dex", 3, "EVENT_STATS"),
       SideHandler("prt_con", 2, "EVENT_STATS"),
       SideHandler("NULL", 15, "EVENT_0"),
       SideHandler("prt_ac", 7, "EVENT_AC"),
       SideHandler("prt_hp", 8, "EVENT_HP"),
       SideHandler("prt_sp", 9, "EVENT_MANA"),
       SideHandler("NULL", 21, "EVENT_0"),
       SideHandler("prt_health", 12, "EVENT_MONSTERHEALTH"),
       SideHandler("NULL", 20, "EVENT_0"),
       SideHandler("NULL", 22, "EVENT_0"),
       SideHandler("prt_speed", 13, "EVENT_PLAYERSPEED"),
       SideHandler("prt_depth", 14, "EVENT_DUNGEONLEVEL") >>

\* The events update_sidebar is signalled with: those of the table and one
\* that no entry has.
SideEvents == {side_handlers[i].type : i \in DOMAIN side_handlers} \cup {"EVENT_INVENTORY"}

\* The largest priority shown when the top and the bottom line are not kept
\* clear.
MaxPriority_NoMargin(y) == y

\* Line 550: max_priority = y - 2.
MaxPriority(y) == y - 2

\* Lines 553-576 from entry i (counted from 1) on; s holds the calls made
\* and the entries given a row so far.
RECURSIVE SideFrom(_, _, _, _)
SideFrom(s, i, row, max_priority) ==
    IF i > Len(side_handlers) THEN s
    ELSE LET hnd == side_handlers[i]
             from_bottom == hnd.priority < 0
             priority == IF from_bottom THEN -hnd.priority ELSE hnd.priority
             r == IF from_bottom
                  THEN s.hgt - (Len(side_handlers) - (i - 1))
                  ELSE row
         IN  IF priority <= max_priority
             THEN SideFrom(
                    [s EXCEPT
                       !.calls = IF hnd.type = s.type /\ hnd.hook # "NULL"
                                 THEN Append(@, [hook |-> hnd.hook, row |-> r,
                                                 col |-> 0, entry |-> i])
                                 ELSE @,
                       !.rowed = @ \cup {i}],
                    i + 1, row + 1, max_priority)
             ELSE SideFrom(s, i + 1, row, max_priority)

\* Lines 539-577: update_sidebar(type, data, user) on a terminal of y lines.
UpdateSidebar(y, type) ==
    SideFrom([pc |-> "done", hgt |-> y, type |-> type, calls |-> <<>>, rowed |-> {}],
             1, 1, MaxPriority(y))

InitSidebar ==
    /\ FreshLists
    /\ scat = scat_idle
    /\ feats = feats_idle
    /\ mons = mons_idle
    /\ level = level_idle
    /\ integ = integ_idle
    /\ lookup = lookup_idle
    /\ fields = fields_idle
    /\ world = world_idle
    /\ subwin = subwin_idle
    /\ side = side_idle

update_sidebar ==
    /\ \E y \in 0..MaxTermHeight, type \in SideEvents :
         side' = UpdateSidebar(y, type)
    /\ UNCHANGED <<listVars, scat, feats, mons, level, integ, lookup, fields, world, subwin>>

NextSidebar == update_sidebar

SpecSidebar == InitSidebar /\ [][NextSidebar]_vars

(* ------------------------------ claims --------------------------------- *)

\* A call can be made: the process has not ended.
Running == fatal = "none"

\* o is in no entry of the list of c.
Absent(c, o) == \A i \in 0..obj_max[c] : objects[c][i] # o

\* The duplicate check of list_object(c, o) does not find o.
NotFound(c, o) == \A i \in 1..(obj_max[c] - 1) : objects[c][i] # o

\* Slot i of c is empty and, on the active level, so is the known chunk's slot i.
FreeSlot(c, i) ==
    /\ objects[c][i] = NULL
    /\ (c = cave => objects[player_cave][i] = NULL)

FreeSlots(c) == {i \in 1..(obj_max[c] - 1) : FreeSlot(c, i)}

\* o is the object listed in c at index o.oidx, which is not 0.
ListedAtOidx(c, o) == oidx[o] # 0 /\ objects[c][oidx[o]] = o

\* C1: after list_object(c, o) returns for a non-null o, on the active level
\* or any other chunk, with or without an extension of the list, o.oidx is
\* not 0 and c.objects[o.oidx] is o.
C1_ListedAtOidx ==
    Running =>
        \A c \in scope : \A o \in Args(c) :
            \A r \in ListOutcomes(cur, c, o) :
                /\ r.oidx[o] # 0
                /\ r.objects[c][r.oidx[o]] = o

\* C1 witness: list_object has just extended the list of a chunk, the object
\* is at the old obj_max and another object is listed in the chunk too.
C1_Witness ==
    /\ call.op = "list" /\ ret = "grow"
    /\ oidx[call.o] = obj_max[call.c] - OBJECT_LIST_INCR
    /\ objects[call.c][oidx[call.o]] = call.o
    /\ \E p \in Obj : p # call.o /\ ListedAtOidx(call.c, p)

\* C2: whenever the known chunk holds a known object at index i, the active
\* level holds at index i the real object whose known counterpart it is, and
\* both have oidx equal to i.
C2_KnownMatchesReal ==
    scope = {cave, player_cave} =>
        \A i \in 0..obj_max[player_cave] :
            LET k == objects[player_cave][i] IN
            (k # NULL /\ \E q \in Obj : known[q] = k)
                => /\ i <= obj_max[cave]
                   /\ objects[cave][i] # NULL
                   /\ known[objects[cave][i]] = k
                   /\ oidx[k] = i
                   /\ oidx[objects[cave][i]] = i

\* C3: a list_object(c, o) call made immediately after a list_object(c, o)
\* call changes no object list, no obj_max and no oidx.
C3_ListTwice ==
    Running =>
        \A c \in scope : \A o \in Args(c) \cup {NULL} :
            \A r1 \in ListOutcomes(cur, c, o) :
                \A r2 \in ListOutcomes(r1, c, o) :
                    /\ r2.objects = r1.objects
                    /\ r2.obj_max = r1.obj_max
                    /\ r2.oidx = r1.oidx

\* C3 witness: list_object was called twice in a row with an object that the
\* first call put at the old obj_max by extending the list.
C3_Witness ==
    /\ call.op = "list" /\ call.rep /\ ret = "dup"
    /\ oidx[call.o] = obj_max[call.c] - OBJECT_LIST_INCR
    /\ objects[call.c][oidx[call.o]] = call.o

\* C4: delist_object(cave, o), for o listed at o.oidx on the active level
\* while the known chunk holds an object at that index, changes nothing.
C4_BlockedDelist ==
    (Running /\ cave \in scope) =>
        \A o \in Args(cave) :
            (ListedAtOidx(cave, o) /\ objects[player_cave][oidx[o]] # NULL)
                => \A r \in DelistOutcomes(cur, cave, o) :
                       /\ r.objects = objects
                       /\ r.obj_max = obj_max
                       /\ r.oidx = oidx
                       /\ r.fatal = "none"

\* C4 witness: a delist_object on the active level has just been refused and
\* both lists still hold their objects at the index.
C4_Witness ==
    /\ call.op = "delist" /\ call.c = cave /\ ret = "blocked"
    /\ ListedAtOidx(cave, call.o)
    /\ objects[player_cave][oidx[call.o]] # NULL

\* C5: delist_object(c, o), for o listed in c at k = o.oidx # 0 and not
\* blocked by a known object, empties c.objects[k], sets o.oidx to 0 and
\* changes no other slot of c.objects.
C5_DelistClears ==
    Running =>
        \A c \in scope : \A o \in Args(c) :
            (/\ ListedAtOidx(c, o)
             /\ ~(c = cave /\ objects[player_cave][oidx[o]] # NULL))
            => \A r \in DelistOutcomes(cur, c, o) :
                   /\ r.objects[c][oidx[o]] = NULL
                   /\ r.oidx[o] = 0
                   /\ \A j \in Idx : j # oidx[o] => r.objects[c][j] = objects[c][j]

\* C5 witness: an object has just been delisted from between two listed ones.
C5_Witness ==
    /\ call.op = "delist" /\ ret = "cleared"
    /\ oidx[call.o] = 0
    /\ objects[call.c][1] # NULL
    /\ objects[call.c][2] = NULL
    /\ objects[call.c][3] # NULL

\* C6: delist_object(c, o) with o.oidx = 0 changes no object list, no
\* obj_max and no oidx, and raises no fatal error.
C6_DelistUnlisted ==
    Running =>
        \A c \in scope : \A o \in Args(c) :
            oidx[o] = 0
            => \A r \in DelistOutcomes(cur, c, o) :
                   /\ r.objects = objects
                   /\ r.obj_max = obj_max
                   /\ r.oidx = oidx
                   /\ r.fatal = "none"

\* C6 witness: delist_object has just returned for an object with oidx 0
\* while a chunk holds other objects.
C6_Witness ==
    /\ call.op = "delist" /\ ret = "unlisted"
    /\ oidx[call.o] = 0
    /\ \E i \in Idx : objects[call.c][i] # NULL

\* C7: list_object(c, o) for an o not in the list of c, when some slot in
\* 1..obj_max-1 is free, puts o at the smallest free slot and leaves obj_max
\* as it was.
C7_ReuseHole ==
    Running =>
        \A c \in scope : \A o \in Args(c) :
            (Absent(c, o) /\ FreeSlots(c) # {})
            => \A r \in ListOutcomes(cur, c, o) :
                   \E i \in FreeSlots(c) :
                       /\ \A j \in FreeSlots(c) : i <= j
                       /\ r.objects[c][i] = o
                       /\ r.oidx[o] = i
                       /\ r.obj_max = obj_max

\* C7 witness: on a chunk that is not the active level and holds objects at
\* 1 and 3, list_object has just put a fourth object into the hole at 2.
C7_Witness ==
    /\ call.op = "list" /\ call.c # cave /\ ret = "hole"
    /\ oidx[call.o] = 2
    /\ objects[call.c][1] # NULL
    /\ objects[call.c][2] = call.o
    /\ objects[call.c][3] # NULL
    /\ \E p \in Obj : Absent(call.c, p)

\* C8: list_object(cave, o) for an o not yet listed never gives o an index at
\* which the known chunk holds an object when the call is made.
C8_NeverAtKnownIndex ==
    (Running /\ cave \in scope) =>
        \A o \in Args(cave) :
            Absent(cave, o)
            => \A r \in ListOutcomes(cur, cave, o) :
                   objects[player_cave][r.oidx[o]] = NULL

\* C9: list_object(c, o) for an o its duplicate check does not find, when no
\* slot in 1..obj_max-1 is free, adds OBJECT_LIST_INCR to obj_max, puts o at
\* the old obj_max, leaves the slots above it empty and the slots below it as
\* they were.
C9_Grow ==
    Running =>
        \A c \in scope : \A o \in Args(c) :
            (NotFound(c, o) /\ FreeSlots(c) = {})
            => \A r \in ListOutcomes(cur, c, o) :
                   /\ r.obj_max[c] = obj_max[c] + OBJECT_LIST_INCR
                   /\ r.objects[c][obj_max[c]] = o
                   /\ r.oidx[o] = obj_max[c]
                   /\ \A i \in (obj_max[c] + 1)..r.obj_max[c] : r.objects[c][i] = NULL
                   /\ \A i \in 0..(obj_max[c] - 1) : r.objects[c][i] = objects[c][i]

\* C9 witness: a list has just been extended for the second time, with every
\* slot up to the old obj_max full.
C9_Witness ==
    /\ call.op = "list" /\ ret = "grow"
    /\ obj_max[call.c] = cave_new_obj_max + 2 * OBJECT_LIST_INCR
    /\ oidx[call.o] = obj_max[call.c] - OBJECT_LIST_INCR
    /\ \A i \in 1..oidx[call.o] : objects[call.c][i] # NULL

\* C10: when list_object extends the active level's list, the known chunk's
\* obj_max afterwards is at least the active level's and every known-chunk
\* slot above the known chunk's old obj_max is empty.
C10_KnownGrows ==
    (Running /\ cave \in scope) =>
        \A o \in Args(cave) :
            \A r \in ListOutcomes(cur, cave, o) :
                r.obj_max[cave] > obj_max[cave]
                => /\ r.obj_max[player_cave] >= r.obj_max[cave]
                   /\ \A i \in Idx :
                        (i > obj_max[player_cave] /\ i <= r.obj_max[player_cave])
                            => r.objects[player_cave][i] = NULL

\* C10 witness: the active level's list has just been extended while the
\* known chunk held an object, and the two chunks have the same obj_max.
C10_Witness ==
    /\ call.op = "list" /\ call.c = cave /\ ret = "grow"
    /\ obj_max[player_cave] = obj_max[cave]
    /\ \E i \in Idx : objects[player_cave][i] # NULL

\* C11: when all calls are made on one chunk c, every object in a slot i of
\* c.objects has oidx equal to i, no object is in two slots, and slot 0 is empty.
C11_SingleChunkIndex ==
    Cardinality(scope) = 1 =>
        \A c \in scope :
            /\ objects[c][0] = NULL
            /\ \A i \in 0..obj_max[c] :
                   objects[c][i] # NULL => oidx[objects[c][i]] = i
            /\ \A i \in 0..obj_max[c] : \A j \in 0..obj_max[c] :
                   (objects[c][i] # NULL /\ objects[c][i] = objects[c][j]) => i = j

\* C11 witness: on a chunk used alone whose list was extended, an object has
\* just been put into the hole a delisted object left, between two others.
C11_Witness ==
    /\ Cardinality(scope) = 1
    /\ call.op = "list" /\ ret = "hole"
    /\ obj_max[call.c] > cave_new_obj_max
    /\ \E i \in 1..(obj_max[call.c] - 2) :
          /\ objects[call.c][i] # NULL
          /\ objects[call.c][i + 1] = call.o
          /\ objects[call.c][i + 2] # NULL
    /\ \E p \in Obj : oidx[p] = 0

\* C12: no call lowers the obj_max of any chunk, the known chunk included
\* when an extension of the active level's list resizes it, and delist_object
\* leaves every obj_max as it is.
C12_NeverShrinks ==
    [][/\ \A c \in Chunks : obj_max'[c] >= obj_max[c]
       /\ (call'.op = "delist" => obj_max' = obj_max)]_vars

\* C13: delist_object(c, o) with o.oidx not 0 and another value than o in
\* c.objects[o.oidx] ends in the fatal error of the assert and changes neither
\* the lists nor any oidx.
C13_AssertFails ==
    Running =>
        \A c \in scope : \A o \in Args(c) :
            (/\ oidx[o] # 0
             /\ oidx[o] <= obj_max[c]
             /\ objects[c][oidx[o]] # o)
            => \A r \in DelistOutcomes(cur, c, o) :
                   /\ r.fatal = "assert"
                   /\ r.objects = objects
                   /\ r.oidx = oidx

\* C13 witness: delist_object has just failed its assert for an object whose
\* oidx is not 0 and whose slot, inside the list, does not hold it.
C13_Witness ==
    /\ call.op = "delist" /\ ret = "assert" /\ fatal = "assert"
    /\ oidx[call.o] # 0
    /\ oidx[call.o] <= obj_max[call.c]
    /\ objects[call.c][oidx[call.o]] # call.o

\* C14: scatter ends for every origin, distance and need_los, after at most
\* MaxTries samples; when no sample was accepted the location it returns is
\* the last one it drew.
C14_ScatterEnds ==
    /\ <>(scat.pc = "done")
    /\ [](scat.tries <= MaxTries)
    /\ []((scat.pc = "done" /\ ~scat.broke)
            => /\ scat.tries = MaxTries
               /\ scat.yp = scat.ny
               /\ scat.xp = scat.nx)

\* C14 witness: scatter has returned after MaxTries samples none of which it
\* accepted, although line of sight was asked for with nothing in sight.
C14_Witness ==
    /\ scat.pc = "done" /\ ~scat.broke
    /\ scat.tries = MaxTries
    /\ scat.need_los /\ scat.sight = "none"
    /\ square_in_bounds_fully(ScatterChunk, scat.y, scat.x)

\* C15: the location scatter returns after leaving its loop by break, with
\* need_los set, has line of sight to the origin.
C15_ScatterLos ==
    (scat.pc = "done" /\ scat.broke /\ scat.need_los)
        => los(scat.sight, scat.y, scat.x, scat.yp, scat.xp)

\* C15 witness: scatter has returned a location other than the origin with
\* need_los set, in a chunk where only adjacent locations are in sight.
C15_Witness ==
    /\ scat.pc = "done" /\ scat.broke /\ scat.need_los
    /\ scat.sight = "near" /\ scat.d = MaxD
    /\ <<scat.yp, scat.xp>> # <<scat.y, scat.x>>

\* C16: the location scatter returns after leaving its loop by break is fully
\* in bounds and, when d > 1, at distance at most d from the origin.
C16_ScatterInBounds ==
    (scat.pc = "done" /\ scat.broke)
        => /\ square_in_bounds_fully(ScatterChunk, scat.yp, scat.xp)
           /\ (scat.d > 1 => distance(scat.y, scat.x, scat.yp, scat.xp) <= scat.d)

\* C16 witness: scatter has returned a location at distance exactly d > 1 from
\* an origin on the edge of the chunk.
C16_Witness ==
    /\ scat.pc = "done" /\ scat.broke
    /\ scat.d > 1
    /\ ~square_in_bounds_fully(ScatterChunk, scat.y, scat.x)
    /\ distance(scat.y, scat.x, scat.yp, scat.xp) = scat.d

\* C17: scatter with d = 0 and need_los false returns the origin, fully in
\* bounds or not.
C17_ScatterZero ==
    (scat.pc = "done" /\ scat.d = 0 /\ ~scat.need_los)
        => (scat.yp = scat.y /\ scat.xp = scat.x)

\* C17 witness: scatter with d = 0 and need_los false has returned for an
\* origin on the edge of the chunk, after using up its samples.
C17_Witness ==
    /\ scat.pc = "done" /\ scat.d = 0 /\ ~scat.need_los
    /\ ~square_in_bounds_fully(ScatterChunk, scat.y, scat.x)
    /\ scat.y # 0
    /\ ~scat.broke

\* The 8 locations next to the player, as locations of the plane.
Neighbours ==
    {cell \in ((feats.py - 1)..(feats.py + 1)) \X ((feats.px - 1)..(feats.px + 1)) :
        cell # <<feats.py, feats.px>>}

\* C18: with a test that is always true and under false, count_feats returns
\* the number of the 8 locations next to the player that are fully in bounds
\* and known, which is at most 8; the player's own location is not counted.
C18_CountNeighbours ==
    (feats.pc = "done" /\ feats.test = "always" /\ ~feats.under)
        => /\ feats.count <= 8
           /\ feats.count =
                Cardinality({cell \in Neighbours :
                               /\ square_in_bounds_fully(FeatsChunk, cell[1], cell[2])
                               /\ cell \in feats.knownCells})

\* C18 witness: count_feats has counted all 8 locations next to a player
\* whose own location is known and fully in bounds too.
C18_Witness ==
    /\ feats.pc = "done" /\ feats.test = "always" /\ ~feats.under
    /\ square_in_bounds_fully(FeatsChunk, feats.py, feats.px)
    /\ <<feats.py, feats.px>> \in feats.knownCells
    /\ feats.count = 8

\* The scan order: south, north, east, west, south-east, south-west,
\* north-east, north-west, the player's own location; <<dy, dx>> each.
C19_Order ==
    << <<1, 0>>, <<-1, 0>>, <<0, 1>>, <<0, -1>>,
       <<1, 1>>, <<1, -1>>, <<-1, 1>>, <<-1, -1>>, <<0, 0>> >>

\* The places in the scan order of the locations that match.
C19_Matches ==
    {k \in 1..(IF feats.under THEN 9 ELSE 8) :
        LET yy == feats.py + C19_Order[k][1]
            xx == feats.px + C19_Order[k][2]
        IN  /\ square_in_bounds_fully(FeatsChunk, yy, xx)
            /\ <<yy, xx>> \in feats.knownCells
            /\ test(feats, yy, xx)}

\* C19: *y and *x hold the last matching location in the scan order; when no
\* location matches, or when y or x is null, they are as before the call.
C19_LastMatch ==
    feats.pc = "done" =>
        IF C19_Matches # {} /\ feats.yptr /\ feats.xptr
        THEN LET k == CHOOSE m \in C19_Matches : \A n \in C19_Matches : n <= m
             IN  /\ feats.y = feats.py + C19_Order[k][1]
                 /\ feats.x = feats.px + C19_Order[k][2]
        ELSE /\ feats.y = feats_idle.y
             /\ feats.x = feats_idle.x

\* C19 witness: count_feats, with under set and both pointers set, has found
\* several matches of which the last is to the north-east.
C19_Witness ==
    /\ feats.pc = "done" /\ feats.under /\ feats.yptr /\ feats.xptr
    /\ feats.count >= 3
    /\ feats.y = feats.py - 1 /\ feats.x = feats.px + 1

\* C20: cave_monster returns NULL for idx <= 0 and entry idx of the monster
\* array for idx > 0, below mon_max or not, the same entry when called again
\* with the same index; cave_monster_max and cave_monster_count return mon_max
\* and mon_cnt; none of the three changes mon_max or mon_cnt.
C20_MonsterAccessors ==
    /\ [](mons.op = "cave_monster" =>
            /\ (mons.idx <= 0 => mons.res = NULL)
            /\ (mons.idx > 0 => mons.res = MonsterSlot(mons.idx))
            /\ (mons.rep => mons.res = mons.prev))
    /\ [](mons.op = "cave_monster_max" => mons.res = mons.mon_max)
    /\ [](mons.op = "cave_monster_count" => mons.res = mons.mon_cnt)
    /\ [][mons'.op \in {"cave_monster", "cave_monster_max", "cave_monster_count"}
            => (mons'.mon_max = mons.mon_max /\ mons'.mon_cnt = mons.mon_cnt)]_vars

\* C20 witness: cave_monster has been called twice in a row with an index
\* above mon_max and has returned that entry both times.
C20_Witness ==
    /\ mons.op = "cave_monster" /\ mons.rep
    /\ mons.idx > mons.mon_max
    /\ mons.mon_max > 1 /\ mons.mon_cnt > 0
    /\ mons.res = MonsterSlot(mons.idx) /\ mons.prev = mons.res

\* C26: when delist_object(cave, o) is refused because the known chunk holds
\* k at o.oidx, then after delist_object(player->cave, k) a further
\* delist_object(cave, o) empties the slot and sets o.oidx to 0, and the next
\* list_object on the active level does not extend the list: the freed index
\* is taken unless a lower one is free.
C26_ReleaseBlocked ==
    (Running /\ scope = {cave, player_cave}) =>
        \A o \in Args(cave) :
            LET i == oidx[o]
                k == objects[player_cave][i]
            IN  (ListedAtOidx(cave, o) /\ k # NULL)
                => \A r1 \in DelistOutcomes(cur, cave, o) :
                   \A r2 \in DelistOutcomes(r1, player_cave, k) :
                   \A r3 \in DelistOutcomes(r2, cave, o) :
                       /\ r1.ret = "blocked"
                       /\ r3.fatal = "none"
                       /\ r3.objects[cave][i] = NULL
                       /\ r3.oidx[o] = 0
                       /\ \A p \in Args(cave) :
                            (\A j \in 0..r3.obj_max[cave] : r3.objects[cave][j] # p)
                            => \A r4 \in ListOutcomes(r3, cave, p) :
                                   /\ r4.obj_max = r3.obj_max
                                   /\ r4.oidx[p] <= i
                                   /\ r4.objects[cave][r4.oidx[p]] = p
                                   /\ ((\A j \in 1..(i - 1) :
                                          \/ r3.objects[cave][j] # NULL
                                          \/ r3.objects[player_cave][j] # NULL)
                                       => r4.oidx[p] = i)

\* C26 witness: delist_object(cave, o) has just been refused because the
\* known counterpart of o is listed in the known chunk at the index of o,
\* while a lower index of the active level is taken.
C26_Witness ==
    /\ scope = {cave, player_cave}
    /\ call.op = "delist" /\ call.c = cave /\ ret = "blocked"
    /\ ListedAtOidx(cave, call.o)
    /\ known[call.o] # NULL
    /\ objects[player_cave][oidx[call.o]] = known[call.o]
    /\ oidx[known[call.o]] = oidx[call.o]
    /\ oidx[call.o] > 1
    /\ objects[cave][1] # NULL

\* C27: list_object(c, o) leaves every other listed object at its index with
\* its oidx, in c and, when c is the active level, in the known chunk.
C27_OthersStay ==
    Running =>
        \A c \in scope : \A o \in Args(c) :
            \A r \in ListOutcomes(cur, c, o) :
                \A ch \in {c} \cup (IF c = cave THEN {player_cave} ELSE {}) :
                    \A i \in 0..obj_max[ch] :
                        LET p == objects[ch][i] IN
                        (p # NULL /\ p # o)
                            => /\ r.objects[ch][i] = p
                               /\ r.oidx[p] = oidx[p]

\* C28: the active level and the known chunk have the same obj_max.
C28_EqualObjMax ==
    scope = {cave, player_cave} => obj_max[cave] = obj_max[player_cave]

C30_OtherChunk ==
    (Running /\ "other" \in scope) =>
        \A o \in Args("other") :
            /\ \A r \in ListOutcomes(cur, "other", o) \cup DelistOutcomes(cur, "other", o) :
                   /\ r.objects[player_cave] = objects[player_cave]
                   /\ r.obj_max[player_cave] = obj_max[player_cave]
            /\ ListedAtOidx("other", o)
                   => \A r \in DelistOutcomes(cur, "other", o) :
                          /\ r.objects["other"][oidx[o]] = NULL
                          /\ r.oidx[o] = 0
                          /\ r.fatal = "none"

\* C30 witness: delist_object has just emptied slot 1 of the third chunk
\* while the known chunk holds an object in its slot 1.
C30_Witness ==
    /\ call.op = "delist" /\ call.c = "other" /\ ret = "cleared"
    /\ oidx[call.o] = 0
    /\ \A i \in Idx : objects["other"][i] = NULL
    /\ objects[player_cave][1] # NULL
    /\ obj_max["other"] = cave_new_obj_max + OBJECT_LIST_INCR

\* C21: the chunk cave_new(height, width) returns has the given height and
\* width, mon_max 1, mon_cnt 0, created_at equal to the game turn of the call,
\* every entry of its object list empty, no name, and no cell with a trap or
\* an object pile.
C21_CaveNewFields ==
    level.op = "cave_new" /\ level.pc = "live" =>
        /\ level.height = level.h /\ level.width = level.w
        /\ level.mon_max = 1
        /\ level.mon_cnt = 0
        /\ level.created_at = level.turn
        /\ \A i \in DOMAIN level.objects : level.objects[i] = NULL
        /\ DOMAIN level.objects = 0..level.obj_max
        /\ ~level.name
        /\ level.trap = {} /\ level.pile = {}

\* cave_new has returned a chunk of unequal height and width while the game
\* turn was not 0.
C21_Witness ==
    /\ level.op = "cave_new" /\ level.pc = "live"
    /\ level.turn > 0
    /\ level.h = MaxHeight /\ level.w = 1 /\ level.w < level.h

\* C22: cave_free of a chunk just as cave_new(height, width) returned it
\* releases every allocation cave_new made, each once, and leaves none live.
C22_RoundTrip ==
    level.op = "cave_free" /\ ~level.name /\ level.trap = {} /\ level.pile = {} =>
        /\ level.live = {}
        /\ Range(level.freed) = CaveNewAllocs(level.height, level.width)
        /\ Len(level.freed) = Cardinality(CaveNewAllocs(level.height, level.width))
        /\ Cardinality(CaveNewAllocs(level.height, level.width))
             = 5 + level.height + level.height * level.width

\* A chunk of the largest size was freed as cave_new returned it.
C22_Witness ==
    /\ level.op = "cave_free" /\ ~level.name /\ level.trap = {} /\ level.pile = {}
    /\ level.height = MaxHeight /\ level.width = MaxWidth
    /\ Len(level.freed) > 5

\* An object has map coordinates unless both are 0.
C23_HasCoordinates(f, o) == f.at[o].iy # 0 \/ f.at[o].ix # 0

\* The two lists are consistent at index i.
C23_ConsistentAt(f, i) ==
    /\ \A o \in IntegReal : f.c_objects[i] = o =>
         /\ f.oidx[o] = i
         /\ (C23_HasCoordinates(f, o) => f.at[o].inpile)
    /\ \A k \in IntegKnown : f.k_objects[i] = k =>
         /\ \E o \in IntegReal : f.c_objects[i] = o /\ KnownOf[o] = k
         /\ f.oidx[k] = i
         /\ (C23_HasCoordinates(f, k) => f.at[k].inpile)

C24_TablesAgree ==
    /\ Len(ddd) = 9 /\ Len(ddx_ddd) = 9 /\ Len(ddy_ddd) = 9
    /\ \A i \in 0..8 :
         /\ ddd[i + 1] \in 0..9
         /\ feats.px + ddx_ddd[i + 1] = feats.px + ddx[ddd[i + 1] + 1]
         /\ feats.py + ddy_ddd[i + 1] = feats.py + ddy[ddd[i + 1] + 1]

\* count_feats has used the entries 0 to 7 of both tables to count eight
\* locations around the player and, last, entry 8 for the player's own.
C24_Witness ==
    /\ feats.pc = "done" /\ feats.count = 9
    /\ feats.yptr /\ feats.xptr
    /\ feats.y = feats.py + ddy[ddd[9] + 1] /\ feats.x = feats.px + ddx[ddd[9] + 1]

\* The indices of the features whose name is the one asked for.
C25_Matches ==
    {i \in 0..(Len(lookup.f_info) - 1) : lookup.f_info[i + 1] = lookup.name}

\* C25: lookup_feat(name) returns the smallest index in 0..f_max-1 of a
\* feature whose name equals the argument, features without a name being
\* skipped; when no feature has the name the process ends in a fatal quit and
\* nothing is returned.
C25_LookupFeat ==
    lookup.pc # "idle" =>
        /\ lookup.pc \in {"done", "quit"}
        /\ lookup.pc = "quit" <=> C25_Matches = {}
        /\ lookup.pc = "done" =>
             /\ lookup.res \in C25_Matches
             /\ \A j \in C25_Matches : lookup.res <= j

\* lookup_feat returned an index above 0: it passed a feature without a name
\* and did not go on to a later feature of the same name.
C25_Witness ==
    /\ lookup.pc = "done" /\ lookup.res > 0
    /\ lookup.f_info[1] = NoName
    /\ \E j \in C25_Matches : j > lookup.res

C32_ScatterWithinD ==
    scat.pc = "done" =>
        /\ Abs(scat.yp - scat.y) <= scat.d
        /\ Abs(scat.xp - scat.x) <= scat.d

\* scatter has used up its budget and returned a location that is d > 0 from
\* the origin on both axes and outside the chunk.
C32_Witness ==
    /\ scat.pc = "done" /\ ~scat.broke
    /\ scat.d > 0
    /\ Abs(scat.yp - scat.y) = scat.d /\ Abs(scat.xp - scat.x) = scat.d
    /\ (scat.yp < 0 \/ scat.xp < 0)

\* What the chunk owned when cave_free was called: the allocations of
\* cave_new, a trap record and a pile for the cells that have one, the name
\* when set.
C33_Owned ==
    CaveNewAllocs(level.height, level.width)
    \cup {Alloc("trap", cell[1], cell[2]) : cell \in level.trap}
    \cup {Alloc("pile", cell[1], cell[2]) : cell \in level.pile}
    \cup (IF level.name THEN {Alloc("name", -1, -1)} ELSE {})

\* C33: cave_free on a populated chunk releases each resource the chunk owns
\* exactly once: nothing owned stays allocated, nothing is released twice,
\* and nothing else is released.
C33_FreeOnce ==
    level.op = "cave_free" =>
        /\ level.live = {}
        /\ Range(level.freed) = C33_Owned
        /\ \A i, j \in 1..Len(level.freed) :
             level.freed[i] = level.freed[j] => i = j

\* A chunk with a name and with a trap and a pile on the same cell was freed.
C33_Witness ==
    /\ level.op = "cave_free"
    /\ level.name
    /\ level.trap # {} /\ level.trap = level.pile
    /\ level.height = MaxHeight /\ level.width = MaxWidth

\* The offset of step i of the scans.
C34_Offset(i) == <<ddx_ddd[i + 1], ddy_ddd[i + 1]>>

\* C34: the nine offsets (ddx_ddd[i], ddy_ddd[i]), i in 0..8, are pairwise
\* distinct and are exactly the pairs of {-1, 0, 1} x {-1, 0, 1}, the zero
\* offset being entry 8 alone; so count_feats looks at each of the 8
\* locations around the player once and at the player's own location last.
C34_OffsetsDistinct ==
    /\ \A i, j \in 0..8 : C34_Offset(i) = C34_Offset(j) => i = j
    /\ {C34_Offset(i) : i \in 0..8} = {-1, 0, 1} \X {-1, 0, 1}
    /\ \A i \in 0..8 : C34_Offset(i) = <<0, 0>> <=> i = 8
    /\ {<<feats.py + ddy_ddd[i + 1], feats.px + ddx_ddd[i + 1]>> : i \in 0..7}
         = Neighbours
    /\ (feats.pc = "done" /\ feats.test = "always" /\ feats.under =>
          feats.count = Cardinality({cell \in Neighbours \cup {<<feats.py, feats.px>>} :
                                       /\ square_in_bounds_fully(FeatsChunk, cell[1], cell[2])
                                       /\ square_isknown(feats, cell[1], cell[2])}))

\* count_feats, asked to look under the player as well, counted all nine
\* locations, each once.
C34_Witness ==
    /\ feats.pc = "done" /\ feats.test = "always" /\ feats.under
    /\ feats.count = 9
    /\ ~feats.yptr

\* C35: after ui_enter_world followed by ui_leave_world, no registration that
\* ui_enter_world made remains.
C35_LeaveUndoesEnter ==
    world.signal = "EVENT_LEAVE_WORLD" =>
        \A h \in world.entered : world.reg[h] = 0

\* C36: after any number of ui_enter_world / ui_leave_world cycles every
\* (event, handler) pair is registered at most once.
C36_RegisteredOnce ==
    world.pc \in {"away", "world"} =>
        \A h \in DOMAIN world.reg : world.reg[h] <= 1

\* The flags with a case in subwindow_flag_changed.
C37_HandledFlags ==
    {PW_INVEN, PW_EQUIP, PW_PLAYER_0, PW_PLAYER_1, PW_PLAYER_2, PW_MAP, PW_MESSAGE,
     PW_OVERHEAD, PW_MONSTER, PW_OBJECT, PW_MONLIST, PW_ITEMLIST}

\* C37: after any sequence of subwindows_set_flags calls from all flags clear
\* and no subwindow handler registered, window_flag[j] of every live
\* subwindow j is the flags given for it last, and the handlers of every flag
\* with a case are registered for window j, once, exactly when the flag is
\* set in window_flag[j]; a subwindow without a terminal keeps its flags
\* clear and has no handler.
C37_FlagsAndHandlers ==
    subwin.pc \in {"ready", "set"} =>
        \A j \in Subwindows :
            /\ j \in subwin.live => subwin.window_flag[j] = subwin.given[j]
            /\ j \notin subwin.live => subwin.window_flag[j] = {}
            /\ \A flag \in C37_HandledFlags :
                 \A h \in FlagHandlers(j, flag) :
                     subwin.reg[h] =
                         IF flag \in subwin.window_flag[j] THEN 1 ELSE 0

\* A flag was set and cleared again in subwindow 1 and the map flag is set in
\* subwindow 2, while subwindow 1 has an undescribed bit set.
C37_Witness ==
    /\ subwin.pc = "set"
    /\ subwin.live = Subwindows
    /\ subwin.minimap[1] = 1 /\ PW_OVERHEAD \notin subwin.window_flag[1]
    /\ PW_MAP \in subwin.window_flag[2]
    /\ 13 \in subwin.window_flag[1]

\* C38: update_sidebar keeps the top and the bottom terminal line clear:
\* whatever the terminal height and the event, every hook it calls gets a row
\* r with 1 <= r <= height - 2, only entries of priority <= height - 2 are
\* given a row, and only entries of the signalled event with a hook are
\* called.
C38_SidebarRows ==
    side.pc = "done" =>
        /\ \A k \in DOMAIN side.calls :
             /\ 1 <= side.calls[k].row
             /\ side.calls[k].row <= side.hgt - 2
             /\ side_handlers[side.calls[k].entry].type = side.type
             /\ side.calls[k].hook = side_handlers[side.calls[k].entry].hook
             /\ side.calls[k].hook # "NULL"
             /\ side.calls[k].entry \in side.rowed
        /\ \A i \in side.rowed : side_handlers[i].priority <= side.hgt - 2

\* On a terminal of 12 lines the five stat lines are printed on rows 2 to 6,
\* nine entries have a row and the others have none.
C38_Witness ==
    /\ side.pc = "done"
    /\ side.hgt = 12
    /\ side.type = "EVENT_STATS"
    /\ Len(side.calls) = 5
    /\ side.calls[1].hook = "prt_str" /\ side.calls[1].row = 2
    /\ side.calls[5].hook = "prt_con" /\ side.calls[5].row = 6
    /\ Cardinality(side.rowed) = 9

====
